---- MODULE Spec2Model ----
(***************************************************************************)
(* A model of the trust-boundary core of wslshot (src/wslshot/cli.py):     *)
(* symlink-safe path resolution, step-by-step directory creation, atomic   *)
(* configuration writes, content-based image validation and the size-limit *)
(* resolver.  Each component has its own specification; the variables of   *)
(* the other components stay at their idle values.                         *)
(***************************************************************************)
EXTENDS Integers, Sequences, FiniteSets, TLC

(***************************************************************************)
(* Bounds of the model.                                                    *)
(***************************************************************************)
\* number of components of the longest path handed to the path functions
MaxDepth == 3
\* number of successive calls of create_directory_safely on one directory
MaxCalls == 2

(***************************************************************************)
(* Program constants (src/wslshot/cli.py, "Constants").                    *)
(***************************************************************************)
FILE_PERMISSION_MASK == 511
CONFIG_FILE_PERMISSIONS == 384
CONFIG_DIR_PERMISSIONS == 448
\* the group-write and other-write bits tested by create_directory_safely
UNSAFE_WRITE_BITS == 18

VARIABLES
    \* ---- the filesystem along one path: fs[i] is the entry named by the
    \*      i-th component inside whatever directory component i-1 leads to
    fs,
    \* ---- resolve_path_safely
    path_len,        \* number of components of path_str
    check_symlink,   \* the check_symlink argument
    rp_pc,           \* "start", "walk", "resolve", "done"
    rp_cur,          \* `current` of the ancestor walk (0 is the root)
    rp_result,       \* "none", the exception raised, or "returned"
    \* ---- create_directory_safely (the target is component path_len)
    md_mode,         \* the mode argument
    md_harden,       \* the harden_permissions argument
    umask,           \* the process umask, applied by mkdir
    md_pc,           \* "pre", "mkdir", "post", "parents", "checks",
                     \* "prechmod", "chmod", "done"
    md_idx,          \* idx of the component being processed (1-based)
    md_pidx,         \* parent_idx of the re-validation loop
    md_stat,         \* stat_info of the component being processed
    md_created,      \* created_dirs
    md_warnings,     \* the warnings echoed so far
    md_result,       \* "none", the exception raised, or "returned"
    \* ---- atomic_write_json (inode 1: the previous file, inode 2: the temp file)
    old_exists,      \* a previous generation of the target exists
    old_doc,         \* the previous generation
    new_doc,         \* the data argument
    cdir,            \* the directory as processes see it: name -> inode, 0: none
    cdata,           \* the content of each inode as processes see it
    ddir,            \* the directory on stable storage
    ddata,           \* the content of each inode on stable storage
    imode,           \* the permission bits of each inode
    aw_pc,           \* "mkstemp", "dump", "fsync", "chmod", "replace",
                     \* "dirsync", "cleanup", "done"
    aw_err,          \* the exception being handled by the except clause
    aw_failed,       \* the step that failed, "none" if none did
    aw_unlink_failed, \* the cleanup's os.unlink raised OSError
    aw_warned,       \* the durability warning echoed, <<>> if none was
    aw_result,       \* "none", the exception raised, or "returned"
    aw_crash,        \* "no", "killed" or "powerloss"
    reader_saw,      \* what a concurrent reader last read from the target
    \* ---- validate_image_file
    vf_file,         \* the file at file_path: its bytes and what Pillow decodes
    max_size_bytes,  \* the max_size_bytes argument, None if not given
    file_size,       \* the file_size argument, None if not given
    vf_pc,           \* "size", "open", "verify", "dims", "trailer", "done"
    img_format,      \* img.format as read after Image.open
    vf_result,       \* "none", "True", or the exception raised
    \* ---- get_size_limits
    sl_config,       \* the config argument: a mapping from keys to values
    sl_pc,           \* "call", "done"
    sl_result,       \* what the call produced
    \* ---- write_config_safely (cdir.target is what the config path leads to)
    wc_link,         \* the config path is no symlink ("none"), or one that
                     \* is "valid" or "dangling"
    wc_pc,           \* "symcheck", "perms", "write", "writing", "done"
    wc_warnings,     \* the warnings echoed so far
    wc_result,       \* "none", the exception raised, or "returned"
    \* ---- the caller of create_directory_safely
    md_call,         \* which call of create_directory_safely is running: 1, 2, ...
    md_fs_before,    \* the filesystem when the running call started
    \* ---- sanitize_error_message
    se_message,      \* the message argument, a string as a sequence of pieces
    se_paths,        \* the paths argument
    show_basename,   \* the show_basename argument
    se_pc,           \* "call", "done"
    se_result,       \* the string returned
    \* ---- fetch with an image_path argument (fs describes image_path)
    allow_symlinks,  \* the --allow-symlinks flag
    fe_pc,           \* "source", "destination", "format", "image",
                     \* "resolving", "validate", "copy", "done"
    fe_log,          \* what the run has done with the file at image_path
    destination_files, \* the number of files in the destination directory
    fe_exit_at,      \* the step that called sys.exit(1), "none" if none did
    exit_code,       \* the exit status of the command, None while it runs
    \* ---- read_config
    rc_file,         \* the content of the config file
    old_backups,     \* the backups earlier runs left next to it, by index
                     \* (0: '.corrupted', k: '.corrupted.k')
    backups,         \* the backups made since: index -> content
    dir_writable,    \* entries of the config directory can be created and renamed
    interactive,     \* what _is_interactive_terminal() returns
    rc_pc,           \* "load", "backup", "prompt", "reset", "done"
    rc_config,       \* the mapping read_config returns, None until it does
    rc_warnings,     \* the warnings echoed so far
    rc_exit,         \* the status of sys.exit, None if it was not called
    rc_file_before,  \* the config file when read_config was called
    backups_before,  \* old_backups when read_config was called
    \* ---- the single-field setters (they call read_config on rc_file)
    st_setter,       \* the setter that was called
    st_arg,          \* its value argument
    st_resolves,     \* what resolve_path_safely does with a directory argument
    st_field,        \* the field _write_config_field is to change
    st_value,        \* the normalized value it is given
    st_pc,           \* "check", "path", "read", "reading", "write", "done"
    st_error,        \* "none", or how the call ended without writing
    \* ---- fetch without an image_path: get_screenshots and copy_screenshots
    image_path_given, \* fetch was called with an image_path argument
    image_result,    \* what validate_image_file does with the file at
                     \* image_path: "True" or the exception that leaves it
    source_entries,  \* what os.scandir(source) yields, in its order
    count,           \* the --count option
    max_total_size_bytes, \* the aggregate limit given to copy_screenshots
    bf_i,            \* the position of the running loop in its sequence
    file_stats,      \* file_stats of get_screenshots, as indexes of entries
    screenshots,     \* what get_screenshots returns, as indexes of entries
    gs_skipped,      \* the entries get_screenshots warned about and skipped
    cs_unreadable,   \* the files copy_screenshots could not stat
    cs_skipped,      \* the files copy_screenshots warned about and skipped
    total_size,      \* total_size of copy_screenshots
    limit_reached,   \* copy_screenshots warned that the total limit is reached
    copied_screenshots,\* the files copied, as indexes of entries
    \* ---- a concurrent actor beside create_directory_safely
    swaps,           \* how often the concurrent actor has changed the path
    replaced,        \* the ancestors it turned into a symlink or removed, in
                     \* time for the re-validation of the component in progress
    raced,           \* the components it created between the first lstat that
                     \* found them absent and the mkdir
    \* ---- two setter invocations running at the same time
    cc_pc,           \* where each invocation is: idle, path, read, write, done
    cc_field,        \* the field each invocation sets
    cc_value,        \* the normalized value each invocation sets
    cc_config,       \* the mapping read_config returned to each invocation
    cc_exit,         \* the exit status of each invocation, None while it runs
    \* ---- copy_screenshots beside an actor that replaces the source files
    cr_files,        \* what is at the path of each screenshot at this moment
    cr_max_file_size, \* max_file_size_bytes of copy_screenshots
    cr_max_total_size, \* max_total_size_bytes of copy_screenshots
    cr_pc,           \* "idle", "stat", "validate", "copy", "done"
    cr_i,            \* the position of the loop over the screenshots
    cr_st_size,      \* stat_result.st_size of the screenshot in progress
    cr_validated,    \* the bytes validate_image_file accepted, by screenshot
    cr_warned,       \* the screenshots warned about and skipped
    cr_total_size,   \* total_size
    cr_copied,       \* the files written to the destination: source and bytes
    cr_result,       \* "none", "returned" or the exception raised
    cr_replacements, \* how often the concurrent actor has replaced a file
    \* ---- write_config_safely beside an actor that replaces the config path
    ws_path,         \* what the config path is: "file", "link", "dangling",
                     \* "absent", or "new" once the temporary file is there
    ws_mode,         \* the permission bits of each file
    ws_content,      \* the content of each file
    ws_before,       \* ws_mode and ws_content when the call started
    ws_data,         \* the config_data argument
    ws_pc,           \* "symcheck", "exists", "stat", "chmod", "temp",
                     \* "replace", "done"
    ws_warnings,     \* the warnings echoed so far
    ws_result,       \* "none", "returned" or the exception raised
    ws_swaps         \* how often the concurrent actor has changed the path

rpVars == <<check_symlink, rp_pc, rp_cur, rp_result>>
mdVars == <<md_mode, md_harden, umask, md_pc, md_idx, md_pidx, md_stat,
            md_created, md_warnings, md_result>>
awVars == <<old_exists, old_doc, new_doc, cdir, cdata, ddir, ddata, imode,
            aw_pc, aw_err, aw_failed, aw_unlink_failed, aw_warned, aw_result,
            aw_crash, reader_saw>>
vfVars == <<vf_file, max_size_bytes, file_size, vf_pc, img_format, vf_result>>
slVars == <<sl_config, sl_pc, sl_result>>
wcVars == <<wc_link, wc_pc, wc_warnings, wc_result>>
mcVars == <<md_call, md_fs_before>>
seVars == <<se_message, se_paths, show_basename, se_pc, se_result>>
feVars == <<allow_symlinks, fe_pc, fe_log, destination_files, fe_exit_at,
            exit_code>>
rcVars == <<rc_file, old_backups, backups, dir_writable, interactive, rc_pc,
            rc_config, rc_warnings, rc_exit, rc_file_before, backups_before>>
stVars == <<st_setter, st_arg, st_resolves, st_field, st_value, st_pc,
            st_error>>
bfVars == <<image_path_given, image_result, source_entries, count,
            max_total_size_bytes, bf_i, file_stats, screenshots, gs_skipped,
            cs_unreadable, cs_skipped, total_size, limit_reached,
            copied_screenshots>>
raVars == <<swaps, replaced, raced>>
ccVars == <<cc_pc, cc_field, cc_value, cc_config, cc_exit>>
crVars == <<cr_files, cr_max_file_size, cr_max_total_size, cr_pc, cr_i,
            cr_st_size, cr_validated, cr_warned, cr_total_size, cr_copied,
            cr_result, cr_replacements>>
wsVars == <<ws_path, ws_mode, ws_content, ws_before, ws_data, ws_pc,
            ws_warnings, ws_result, ws_swaps>>
vars == <<fs, path_len, rpVars, mdVars, awVars, vfVars, slVars, wcVars, mcVars,
          seVars, feVars, rcVars, stVars, bfVars, raVars, ccVars, crVars,
          wsVars>>
\* what the actions of one component leave alone in the other components
rpOther == <<mdVars, awVars, vfVars, slVars, wcVars, mcVars, seVars, feVars,
             rcVars, stVars, bfVars, raVars, ccVars, crVars, wsVars>>
mdOther == <<rpVars, awVars, vfVars, slVars, wcVars, mcVars, seVars, feVars,
             rcVars, stVars, bfVars, raVars, ccVars, crVars, wsVars>>
awOther == <<fs, path_len, rpVars, mdVars, vfVars, slVars, wcVars, mcVars,
             seVars, feVars, rcVars, stVars, bfVars, raVars, ccVars, crVars,
             wsVars>>
vfOther == <<fs, path_len, rpVars, mdVars, awVars, slVars, wcVars, mcVars,
             seVars, feVars, rcVars, stVars, bfVars, raVars, ccVars, crVars,
             wsVars>>
slOther == <<fs, path_len, rpVars, mdVars, awVars, vfVars, wcVars, mcVars,
             seVars, feVars, rcVars, stVars, bfVars, raVars, ccVars, crVars,
             wsVars>>
wcOther == <<fs, path_len, rpVars, mdVars, vfVars, slVars, mcVars, seVars,
             feVars, rcVars, stVars, bfVars, raVars, ccVars, crVars, wsVars>>
mcOther == <<fs, path_len, rpVars, awVars, vfVars, slVars, wcVars, seVars,
             feVars, rcVars, stVars, bfVars, raVars, ccVars, crVars, wsVars>>
seOther == <<fs, path_len, rpVars, mdVars, awVars, vfVars, slVars, wcVars,
             mcVars, feVars, rcVars, stVars, bfVars, raVars, ccVars, crVars,
             wsVars>>
feOther == <<fs, path_len, mdVars, awVars, vfVars, slVars, wcVars, mcVars,
             seVars, rcVars, stVars, bfVars, raVars, ccVars, crVars, wsVars>>
rcOther == <<fs, path_len, rpVars, mdVars, awVars, vfVars, slVars, wcVars,
             mcVars, seVars, feVars, stVars, bfVars, raVars, ccVars, crVars,
             wsVars>>
stOther == <<fs, path_len, rpVars, mdVars, awVars, vfVars, slVars, wcVars,
             mcVars, seVars, feVars, bfVars, raVars, ccVars, crVars, wsVars>>
bfOther == <<fs, path_len, rpVars, mdVars, awVars, vfVars, slVars, wcVars,
             mcVars, seVars, rcVars, stVars, raVars, ccVars, crVars, wsVars>>
raOther == <<path_len, rpVars, mdVars, awVars, vfVars, slVars, wcVars, mcVars,
             seVars, feVars, rcVars, stVars, bfVars, ccVars, crVars, wsVars>>
ccOther == <<fs, path_len, rpVars, mdVars, awVars, vfVars, slVars, wcVars,
             mcVars, seVars, feVars, stVars, bfVars, raVars, crVars, wsVars>>
crOther == <<fs, path_len, rpVars, mdVars, awVars, vfVars, slVars, wcVars,
             mcVars, seVars, feVars, rcVars, stVars, bfVars, raVars, ccVars,
             wsVars>>
wsOther == <<fs, path_len, rpVars, mdVars, awVars, vfVars, slVars, wcVars,
             mcVars, seVars, feVars, rcVars, stVars, bfVars, raVars, ccVars,
             crVars>>

(***************************************************************************)
(* Bit operations on permission bits.                                      *)
(***************************************************************************)
RECURSIVE BitAnd(_, _)
BitAnd(a, b) ==
    IF a = 0 \/ b = 0 THEN 0
    ELSE (a % 2) * (b % 2) + 2 * BitAnd(a \div 2, b \div 2)

\* a & ~b
BitClear(a, b) == a - BitAnd(a, b)

(***************************************************************************)
(* The filesystem along the path.                                          *)
(***************************************************************************)
Uids == {"me", "other"}
\* 0o755 and 0o777: one mode without and one with group/other write bits
DirModes == {493, 511}
LinkTargets == {"dir", "file", "none"}

AbsentEnt == [kind |-> "absent", uid |-> "none", mode |-> 0, to |-> "none"]
DirEnt(u, m) == [kind |-> "dir", uid |-> u, mode |-> m, to |-> "none"]
FileEnt(u) == [kind |-> "file", uid |-> u, mode |-> 420, to |-> "none"]
\* lstat of a symlink reports the link itself: mode 0o777
LinkEnt(u, t) == [kind |-> "link", uid |-> u, mode |-> 511, to |-> t]
\* the filesystem root: a directory of the system, never a symlink
RootEnt == DirEnt("other", 493)

Entries ==
    {AbsentEnt}
    \cup {DirEnt(u, m) : u \in Uids, m \in DirModes}
    \cup {FileEnt("me")}
    \cup {LinkEnt("me", t) : t \in LinkTargets}

\* entries whose owner and mode are not varied (for operations that read neither)
PlainEntries ==
    {AbsentEnt, DirEnt("me", 493), FileEnt("me")}
    \cup {LinkEnt("me", t) : t \in LinkTargets}

Ent(i) == IF i = 0 THEN RootEnt ELSE fs[i]

\* the kernel can walk through this entry to the entries beneath it
Traversable(e) == e.kind = "dir" \/ (e.kind = "link" /\ e.to = "dir")

\* nothing exists beneath an entry the kernel cannot walk through
WellFormed(f) ==
    \A i \in 1..MaxDepth : \A j \in 1..MaxDepth :
        (j < i /\ ~Traversable(f[j])) => f[i] = AbsentEnt

\* the first ancestor of component i that stops the kernel's walk (0: none)
FirstBlock(i) ==
    IF \E j \in 1..(i - 1) : ~Traversable(fs[j])
    THEN CHOOSE j \in 1..(i - 1) :
            /\ ~Traversable(fs[j])
            /\ \A k \in 1..(j - 1) : Traversable(fs[k])
    ELSE 0

\* os.lstat(component i): the entry itself, never the target of a leaf link;
\* "absent" stands for ENOENT and "notdir" for ENOTDIR
Lstat(i) ==
    IF i = 0 THEN RootEnt
    ELSE IF FirstBlock(i) = 0 THEN fs[i]
    ELSE IF fs[FirstBlock(i)].kind \in {"file"}
              \/ (fs[FirstBlock(i)].kind = "link" /\ fs[FirstBlock(i)].to = "file")
         THEN [AbsentEnt EXCEPT !.kind = "notdir"]
    ELSE AbsentEnt

(***************************************************************************)
(* resolve_path_safely(path_str, check_symlink)                            *)
(***************************************************************************)
\* a test that looks at the last component only
IsSymlinkLeafOnly(i) == i = path_len /\ Lstat(i).kind = "link"

\* Path.is_symlink(): lstat + S_ISLNK; ENOENT and ENOTDIR give False
IsSymlink(i) == Lstat(i).kind = "link"

ValueErrors == {"ValueError:SymlinksNotAllowed", "ValueError:SymlinkInParentChain"}

\* Path.resolve(strict=True): follows symlinks, every component must exist
ResolveStrict(n) ==
    IF \E i \in 1..n : Lstat(i).kind = "notdir" THEN "NotADirectoryError"
    ELSE IF \E i \in 1..n : Lstat(i).kind = "absent" THEN "FileNotFoundError"
    ELSE IF \E i \in 1..n : fs[i].kind = "link" /\ fs[i].to = "none"
         THEN "FileNotFoundError"
    ELSE "returned"

\* lines 426-430: expanduser, then the check of the target itself
RpLeafCheck ==
    /\ rp_pc = "start"
    /\ IF check_symlink /\ IsSymlink(path_len)
       THEN /\ rp_pc' = "done"
            /\ rp_result' = "ValueError:SymlinksNotAllowed"
            /\ UNCHANGED rp_cur
       ELSE IF check_symlink
       THEN /\ rp_pc' = "walk"
            /\ rp_cur' = path_len
            /\ UNCHANGED rp_result
       ELSE /\ rp_pc' = "resolve"
            /\ UNCHANGED <<rp_cur, rp_result>>
    /\ UNCHANGED <<fs, path_len, check_symlink, rpOther>>

\* a walk that looks at the target and at none of its ancestors
WalkDoneAfterTarget(current) == current < path_len

\* line 438: `current != current.parent` fails at the root only
WalkDone(current) == current = 0

\* lines 437-441: one turn of `while current != current.parent`
RpWalk ==
    /\ rp_pc = "walk"
    /\ IF WalkDone(rp_cur)
       THEN /\ rp_pc' = "resolve"
            /\ UNCHANGED <<rp_cur, rp_result>>
       ELSE IF IsSymlink(rp_cur)
       THEN /\ rp_pc' = "done"
            /\ rp_result' = "ValueError:SymlinkInParentChain"
            /\ UNCHANGED rp_cur
       ELSE /\ rp_cur' = rp_cur - 1
            /\ UNCHANGED <<rp_pc, rp_result>>
    /\ UNCHANGED <<fs, path_len, check_symlink, rpOther>>

\* lines 445-447: path.resolve(strict=True) and the return
RpResolve ==
    /\ rp_pc = "resolve"
    /\ rp_pc' = "done"
    /\ rp_result' = ResolveStrict(path_len)
    /\ UNCHANGED <<fs, path_len, check_symlink, rp_cur, rpOther>>

(***************************************************************************)
(* create_directory_safely(directory, mode, harden_permissions)            *)
(* One action per system call; the components are 1..path_len, root first. *)
(***************************************************************************)
S_ISLNK(st) == st.kind = "link"

\* a test that takes anything for a directory
S_ISDIR_Any(st) == TRUE

S_ISDIR(st) == st.kind = "dir"

\* hasattr(os, "getuid"): the program runs on a POSIX system (WSL)
can_check_ownership == TRUE

\* the caller may create an entry in this directory
Writable(e) ==
    \/ e.kind = "dir" /\ (e.uid = "me" \/ BitAnd(e.mode, 2) # 0)
    \/ e.kind = "link" /\ e.to = "dir"

MdRaise(err) ==
    /\ md_pc' = "done"
    /\ md_result' = err

\* the end of one turn of the for loop: the next component, or the return
MdAdvance ==
    IF md_idx = path_len
    THEN /\ md_pc' = "done"
         /\ md_result' = "returned"
         /\ UNCHANGED md_idx
    ELSE /\ md_pc' = "pre"
         /\ md_idx' = md_idx + 1
         /\ UNCHANGED md_result

\* lines 508-515: pre_stat = component.lstat()
MdPreLstat ==
    /\ md_pc = "pre"
    /\ LET st == Lstat(md_idx) IN
       IF st.kind = "notdir" THEN MdRaise("NotADirectoryError")
       ELSE IF st.kind = "absent"
       THEN /\ md_pc' = "mkdir"
            /\ UNCHANGED md_result
       ELSE IF S_ISLNK(st) THEN MdRaise("SecurityError:PathContainsSymlink")
       ELSE /\ md_pc' = "post"
            /\ UNCHANGED md_result
    /\ UNCHANGED <<fs, path_len, md_mode, md_harden, umask, md_idx, md_pidx,
                   md_stat, md_created, md_warnings, mdOther>>

\* lines 517-524: component.mkdir(mode=mode, exist_ok=False)
MdMkdir ==
    /\ md_pc = "mkdir"
    /\ LET st == Lstat(md_idx) IN
       IF st.kind = "notdir"
       THEN MdRaise("NotADirectoryError") /\ UNCHANGED <<fs, md_created>>
       ELSE IF st.kind = "absent" /\ FirstBlock(md_idx) # 0
       THEN MdRaise("FileNotFoundError") /\ UNCHANGED <<fs, md_created>>
       ELSE IF st.kind = "absent" /\ ~Writable(Ent(md_idx - 1))
       THEN MdRaise("PermissionError") /\ UNCHANGED <<fs, md_created>>
       ELSE IF st.kind = "absent"
       THEN /\ fs' = [fs EXCEPT ![md_idx] = DirEnt("me", BitClear(md_mode, umask))]
            /\ md_created' = md_created \cup {md_idx}
            /\ md_pc' = "post"
            /\ UNCHANGED md_result
       ELSE \* FileExistsError: created by someone else since the lstat
            /\ md_pc' = "post"
            /\ UNCHANGED <<fs, md_created, md_result>>
    /\ UNCHANGED <<path_len, md_mode, md_harden, umask, md_idx, md_pidx,
                   md_stat, md_warnings, mdOther>>

\* lines 528-544: stat_info = component.lstat(), S_ISLNK and S_ISDIR
MdPostLstat ==
    /\ md_pc = "post"
    /\ LET st == Lstat(md_idx) IN
       IF st.kind = "notdir"
       THEN MdRaise("NotADirectoryError") /\ UNCHANGED <<md_stat, md_pidx>>
       ELSE IF st.kind = "absent"
       THEN MdRaise("SecurityError:PathDisappeared") /\ UNCHANGED <<md_stat, md_pidx>>
       ELSE IF S_ISLNK(st)
       THEN MdRaise("SecurityError:PathIsSymlink") /\ UNCHANGED <<md_stat, md_pidx>>
       ELSE IF ~S_ISDIR(st)
       THEN MdRaise("SecurityError:NotADirectory") /\ UNCHANGED <<md_stat, md_pidx>>
       ELSE /\ md_stat' = st
            /\ md_pidx' = 1
            /\ md_pc' = "parents"
            /\ UNCHANGED md_result
    /\ UNCHANGED <<fs, path_len, md_mode, md_harden, umask, md_idx,
                   md_created, md_warnings, mdOther>>

\* lines 548-559: one turn of `for parent_idx in range(idx)`
MdParentCheck ==
    /\ md_pc = "parents"
    /\ IF md_pidx >= md_idx
       THEN /\ md_pc' = "checks"
            /\ UNCHANGED <<md_pidx, md_result>>
       ELSE LET st == Lstat(md_pidx) IN
            IF st.kind = "notdir"
            THEN MdRaise("NotADirectoryError") /\ UNCHANGED md_pidx
            ELSE IF st.kind = "absent"
            THEN MdRaise("SecurityError:ParentDisappeared") /\ UNCHANGED md_pidx
            ELSE IF S_ISLNK(st)
            THEN MdRaise("SecurityError:ParentBecameSymlink") /\ UNCHANGED md_pidx
            ELSE /\ md_pidx' = md_pidx + 1
                 /\ UNCHANGED <<md_pc, md_result>>
    /\ UNCHANGED <<fs, path_len, md_mode, md_harden, umask, md_idx,
                   md_stat, md_created, md_warnings, mdOther>>

\* a test that asks for the exact mode
PermissionsDiffer(st_mode, mode) == BitAnd(st_mode, FILE_PERMISSION_MASK) # mode

\* current_mode & 0o022: group or others may write; the mode asked for
\* plays no part
UnsafePermissions(st_mode, mode) ==
    BitAnd(BitAnd(st_mode, FILE_PERMISSION_MASK), UNSAFE_WRITE_BITS) # 0

\* permissions fixed whatever the caller asked for
HardenAlways == TRUE

\* line 571: `if harden_permissions and component == directory`
HardenRequested == md_harden

\* a check of the components this call created, and of no other
OwnershipCheckedIfCreated(idx) == idx \in md_created

\* line 563: component in created_dirs or component == directory
OwnershipChecked(idx) == idx \in md_created \/ idx = path_len

\* lines 563-578: the ownership check and the decision to fix permissions,
\* both on the stat_info already fetched
MdChecks ==
    /\ md_pc = "checks"
    /\ IF /\ can_check_ownership
          /\ OwnershipChecked(md_idx)
          /\ md_stat.uid # "me"
       THEN /\ MdRaise("SecurityError:DifferentUser")
            /\ UNCHANGED <<md_idx, md_warnings>>
       ELSE IF /\ HardenRequested
               /\ md_idx = path_len
               /\ UnsafePermissions(md_stat.mode, md_mode)
       THEN /\ md_pc' = "prechmod"
            /\ md_warnings' = md_warnings \cup {"unsafe permissions"}
            /\ UNCHANGED <<md_idx, md_result>>
       ELSE /\ MdAdvance
            /\ UNCHANGED md_warnings
    /\ UNCHANGED <<fs, path_len, md_mode, md_harden, umask, md_pidx,
                   md_stat, md_created, mdOther>>

\* lines 581-590: pre_chmod_stat = directory.lstat()
MdPreChmodLstat ==
    /\ md_pc = "prechmod"
    /\ LET st == Lstat(path_len) IN
       IF st.kind = "notdir" THEN MdRaise("NotADirectoryError")
       ELSE IF st.kind = "absent"
       THEN MdRaise("SecurityError:DisappearedBeforeChmod")
       ELSE IF S_ISLNK(st)
       THEN MdRaise("SecurityError:BecameSymlinkBeforeChmod")
       ELSE /\ md_pc' = "chmod"
            /\ UNCHANGED md_result
    /\ UNCHANGED <<fs, path_len, md_mode, md_harden, umask, md_idx, md_pidx,
                   md_stat, md_created, md_warnings, mdOther>>

\* chmod that follows a symlink to what it points at
ChmodFollowing(st) ==
    IF st.kind \in {"absent", "notdir"} THEN "OSError"
    ELSE IF st.kind # "link" /\ st.uid # "me" THEN "OSError"
    ELSE "changed"

\* line 593: Path.chmod(mode, follow_symlinks=False) on an entry: undefined
\* on a symlink (NotImplementedError), ENOENT, ENOTDIR or EPERM (OSError),
\* or the mode is changed
Chmod(st) ==
    IF S_ISLNK(st) THEN "NotImplementedError"
    ELSE IF st.kind \in {"absent", "notdir"} \/ st.uid # "me" THEN "OSError"
    ELSE "changed"

\* lines 591-608: directory.chmod(mode, follow_symlinks=False), then the return
MdChmod ==
    /\ md_pc = "chmod"
    /\ LET st == Lstat(path_len) IN
       IF Chmod(st) = "NotImplementedError"
       THEN /\ MdRaise("SecurityError:BecameSymlinkDuringChmod")
            /\ UNCHANGED <<fs, md_idx, md_warnings>>
       ELSE IF Chmod(st) = "OSError"
       THEN \* warned about, not raised
            /\ md_warnings' = md_warnings \cup {"could not fix permissions"}
            /\ MdAdvance
            /\ UNCHANGED fs
       ELSE /\ fs' = [fs EXCEPT ![path_len].mode = md_mode]
            /\ MdAdvance
            /\ UNCHANGED md_warnings
    /\ UNCHANGED <<path_len, md_mode, md_harden, umask, md_pidx,
                   md_stat, md_created, mdOther>>

\* the caller calls create_directory_safely again with the same arguments
\* once a call has returned
MdCallAgain ==
    /\ md_pc = "done"
    /\ md_result = "returned"
    /\ md_call < MaxCalls
    /\ md_call' = md_call + 1
    /\ md_fs_before' = fs
    /\ md_pc' = "pre"
    /\ md_idx' = 1
    /\ md_pidx' = 1
    /\ md_stat' = AbsentEnt
    /\ md_created' = {}
    /\ md_warnings' = {}
    /\ md_result' = "none"
    /\ UNCHANGED <<fs, path_len, md_mode, md_harden, umask, mcOther>>

(***************************************************************************)
(* sanitize_path_for_error and sanitize_error_message.  A string is a      *)
(* sequence of pieces: a separator "/", a path segment, or a word of the   *)
(* message; str.replace works on pieces as it does on characters.          *)
(***************************************************************************)
\* str.rstrip("/")
RECURSIVE RStripSlash(_)
RStripSlash(s) ==
    IF s # <<>> /\ s[Len(s)] = "/" THEN RStripSlash(SubSeq(s, 1, Len(s) - 1))
    ELSE s

\* normalized.split("/")[-1]
RECURSIVE LastSegment(_)
LastSegment(s) ==
    IF s = <<>> THEN <<>>
    ELSE IF s[Len(s)] = "/" THEN <<>>
    ELSE LastSegment(SubSeq(s, 1, Len(s) - 1)) \o <<s[Len(s)]>>

sanitize_path_for_error(path, show) ==
    IF ~show THEN <<"<path>">>
    ELSE IF path = <<>> THEN <<"<path>">>
    ELSE LET basename == LastSegment(RStripSlash(path))
         IN IF basename = <<>> \/ basename = <<".">> THEN <<"<path>">>
            ELSE <<"<...>", "/">> \o basename

\* s.startswith(old)
HasPrefix(s, old) == Len(s) >= Len(old) /\ SubSeq(s, 1, Len(old)) = old

\* str.replace(old, new) for a non-empty old: every occurrence, left to right
RECURSIVE StrReplace(_, _, _)
StrReplace(s, old, new) ==
    IF s = <<>> THEN <<>>
    ELSE IF HasPrefix(s, old)
        THEN new \o StrReplace(SubSeq(s, Len(old) + 1, Len(s)), old, new)
    ELSE <<s[1]>> \o StrReplace(SubSeq(s, 2, Len(s)), old, new)

\* the for loop over paths, from the i-th path on
RECURSIVE SanitizeFrom(_, _, _, _)
SanitizeFrom(message, paths, show, i) ==
    IF i > Len(paths) THEN message
    ELSE SanitizeFrom(
             StrReplace(message, paths[i], sanitize_path_for_error(paths[i], show)),
             paths, show, i + 1)

sanitize_error_message(message, paths, show) == SanitizeFrom(message, paths, show, 1)

SeSanitize ==
    /\ se_pc = "call"
    /\ se_result' = sanitize_error_message(se_message, se_paths, show_basename)
    /\ se_pc' = "done"
    /\ UNCHANGED <<se_message, se_paths, show_basename, seOther>>

\* str(path) of an absolute path given by its segments
RECURSIVE PathStr(_)
PathStr(segments) ==
    IF segments = <<>> THEN <<>>
    ELSE <<"/", segments[1]>> \o PathStr(SubSeq(segments, 2, Len(segments)))

(***************************************************************************)
(* Configuration documents and their JSON text.                            *)
(* A document is written as a sequence of chunks, the way json.dump hands  *)
(* them to the file: "{", then each key and value, then "}".               *)
(***************************************************************************)
\* Python values that are not of one TLA+ type: None, and a str
PyNone == [type |-> "NoneType"]
PyStr(s) == [type |-> "str", value |-> s]

Docs ==
    [auto_stage_enabled : BOOLEAN,
     default_output_format : {"markdown", "html"},
     default_convert_to : {PyNone, PyStr("png")}]

EncodeBool(b) == IF b THEN "true" ELSE "false"
EncodeStr(x) == IF x = "markdown" THEN "\"markdown\"" ELSE "\"html\""
\* an encoder that writes None the way str() does
EncodeNoneAsStr(x) == IF x.type = "NoneType" THEN "\"None\"" ELSE "\"png\""

\* None is written as null, a str between quotes
EncodeOptionalStr(x) == IF x.type = "NoneType" THEN "null" ELSE "\"png\""

\* json.dump(data, f, indent=4)
Serialize(doc) ==
    << "{",
       "\"auto_stage_enabled\":", EncodeBool(doc.auto_stage_enabled),
       "\"default_output_format\":", EncodeStr(doc.default_output_format),
       "\"default_convert_to\":", EncodeOptionalStr(doc.default_convert_to),
       "}" >>

\* json.load: the text is a whole document
WellFormedJson(text) ==
    /\ Len(text) = 8
    /\ text[1] = "{"
    /\ text[2] = "\"auto_stage_enabled\":"
    /\ text[3] \in {"true", "false"}
    /\ text[4] = "\"default_output_format\":"
    /\ text[5] \in {"\"markdown\"", "\"html\""}
    /\ text[6] = "\"default_convert_to\":"
    /\ text[7] \in {"null", "\"png\""}
    /\ text[8] = "}"

DecodeJson(text) ==
    [auto_stage_enabled |-> (text[3] = "true"),
     default_output_format |-> IF text[5] = "\"markdown\"" THEN "markdown" ELSE "html",
     default_convert_to |-> IF text[7] = "null" THEN PyNone ELSE PyStr("png")]

(***************************************************************************)
(* atomic_write_json(path, data, mode)                                     *)
(* The directory holds the target name and the temp name.  What processes  *)
(* see (cdir, cdata) is the kernel's cache; stable storage (ddir, ddata)   *)
(* follows it through fsync and through the kernel's own write-back, which *)
(* may write a directory change before the data of the file it names.      *)
(***************************************************************************)
\* str(path.parent): the directory of the config file
ConfigDirStr == PathStr(<<"home", "alice", ".config", "wslshot">>)

\* str(error) of the OSError raised by os.open(path.parent, ...), which
\* names the directory, and by os.fsync(dir_fd), which names nothing
OsErrorStr(call) ==
    IF call = "os.open"
        THEN <<"[Errno 13] Permission denied: '">> \o ConfigDirStr \o <<"'">>
    ELSE <<"[Errno 5] Input/output error">>

\* a failure of the directory fsync that is passed over in silence
NoWarning(error) == <<>>

\* the warning echoed when the directory fsync fails
DurabilityWarning(error) ==
    <<"Warning:", " Config saved but durability not guaranteed: ">> \o error

OldInode == 1
TmpInode == 2

AwRunning == aw_crash = "no" /\ aw_result = "none"

\* an fsync that leaves the data in the cache
FsyncSkipped(stable, cached) == stable

\* os.fsync(f.fileno()): the file's data reaches stable storage
FsyncData(stable, cached) == cached

\* a sequence that renames the temp file as soon as it is written
StepAfterRenameEarly(step) ==
    CASE step = "dump" -> "replace"
      [] step = "replace" -> "fsync"
      [] step = "fsync" -> "chmod"
      [] step = "chmod" -> "dirsync"

\* lines 300-310: dump and flush, fsync, chmod, replace; lines 320-330: the
\* directory fsync
StepAfter(step) ==
    CASE step = "dump" -> "fsync"
      [] step = "fsync" -> "chmod"
      [] step = "chmod" -> "replace"
      [] step = "replace" -> "dirsync"

\* the failures of the steps
AwFail(step, err) ==
    /\ aw_failed' = step
    /\ aw_err' = err
    /\ aw_pc' = "cleanup"

\* line 297: tempfile.mkstemp(dir=path.parent, ...), outside the try block
AwMkstemp ==
    /\ AwRunning /\ aw_pc = "mkstemp"
    /\ \/ /\ cdir' = [cdir EXCEPT !.tmp = TmpInode]
          /\ cdata' = [cdata EXCEPT ![TmpInode] = <<>>]
          /\ imode' = [imode EXCEPT ![TmpInode] = CONFIG_FILE_PERMISSIONS]
          /\ aw_pc' = "dump"
          /\ UNCHANGED <<aw_failed, aw_result>>
       \/ /\ aw_failed' = "mkstemp"
          /\ aw_pc' = "done"
          /\ aw_result' = "OSError"
          /\ UNCHANGED <<cdir, cdata, imode>>
    /\ UNCHANGED <<old_exists, old_doc, new_doc, ddir, ddata, aw_err,
                   aw_unlink_failed, aw_warned, aw_crash, reader_saw, awOther>>

\* lines 301-303: json.dump writes one more chunk; f.flush() after the last
AwDump ==
    /\ AwRunning /\ aw_pc = "dump"
    /\ \/ /\ Len(cdata[TmpInode]) < Len(Serialize(new_doc))
          /\ cdata' = [cdata EXCEPT ![TmpInode] =
                          Append(@, Serialize(new_doc)[Len(@) + 1])]
          /\ aw_pc' = IF Len(cdata'[TmpInode]) = Len(Serialize(new_doc))
                      THEN StepAfter("dump") ELSE "dump"
          /\ UNCHANGED <<aw_failed, aw_err>>
       \/ /\ \E err \in {"TypeError", "OSError"} : AwFail("dump", err)
          /\ UNCHANGED cdata
    /\ UNCHANGED <<old_exists, old_doc, new_doc, cdir, ddir, ddata, imode,
                   aw_unlink_failed, aw_warned, aw_result, aw_crash,
                   reader_saw, awOther>>

\* line 304: os.fsync(f.fileno())
AwFsync ==
    /\ AwRunning /\ aw_pc = "fsync"
    /\ \/ /\ ddata' = [ddata EXCEPT ![TmpInode] = FsyncData(@, cdata[TmpInode])]
          /\ aw_pc' = StepAfter("fsync")
          /\ UNCHANGED <<aw_failed, aw_err>>
       \/ /\ AwFail("fsync", "OSError")
          /\ UNCHANGED ddata
    /\ UNCHANGED <<old_exists, old_doc, new_doc, cdir, cdata, ddir, imode,
                   aw_unlink_failed, aw_warned, aw_result, aw_crash,
                   reader_saw, awOther>>

\* line 307: os.chmod(temp_path, mode)
AwChmod ==
    /\ AwRunning /\ aw_pc = "chmod"
    /\ \/ /\ imode' = [imode EXCEPT ![TmpInode] = CONFIG_FILE_PERMISSIONS]
          /\ aw_pc' = StepAfter("chmod")
          /\ UNCHANGED <<aw_failed, aw_err>>
       \/ /\ AwFail("chmod", "OSError")
          /\ UNCHANGED imode
    /\ UNCHANGED <<old_exists, old_doc, new_doc, cdir, cdata, ddir, ddata,
                   aw_unlink_failed, aw_warned, aw_result, aw_crash,
                   reader_saw, awOther>>

\* a write that goes into the file already there, when there is one
ReplaceInPlace(dir) ==
    [target |-> IF dir.target # 0 THEN dir.target ELSE dir.tmp, tmp |-> 0]

\* what os.replace(temp_path, path) does to the directory
Replace(dir) == [target |-> dir.tmp, tmp |-> 0]

\* line 310: os.replace(temp_path, str(path))
AwReplace ==
    /\ AwRunning /\ aw_pc = "replace"
    /\ \/ /\ cdir' = Replace(cdir)
          /\ aw_pc' = StepAfter("replace")
          /\ UNCHANGED <<aw_failed, aw_err>>
       \/ /\ AwFail("replace", "OSError")
          /\ UNCHANGED cdir
    /\ UNCHANGED <<old_exists, old_doc, new_doc, cdata, ddir, ddata, imode,
                   aw_unlink_failed, aw_warned, aw_result, aw_crash,
                   reader_saw, awOther>>

\* a cleanup that leaves the temp file where it is
UnlinkNothing(dir) == dir

\* what the except clause does with the temp file when os.unlink succeeds
Unlink(dir) == [dir EXCEPT !.tmp = 0]

\* lines 312-318: except Exception: os.unlink(temp_path), OSError passed
\* over; then raise
AwCleanup ==
    /\ AwRunning /\ aw_pc = "cleanup"
    /\ \/ /\ cdir' = Unlink(cdir)
          /\ UNCHANGED aw_unlink_failed
       \/ /\ aw_unlink_failed' = TRUE
          /\ UNCHANGED cdir
    /\ aw_pc' = "done"
    /\ aw_result' = aw_err
    /\ UNCHANGED <<old_exists, old_doc, new_doc, cdata, ddir, ddata, imode,
                   aw_err, aw_failed, aw_warned, aw_crash, reader_saw, awOther>>

\* lines 322-335: os.open of the directory, os.fsync(dir_fd); an OSError is
\* echoed as a warning and the function returns
AwDirFsync ==
    /\ AwRunning /\ aw_pc = "dirsync"
    /\ \/ /\ ddir' = cdir
          /\ UNCHANGED <<aw_failed, aw_warned>>
       \/ /\ aw_failed' = "dirsync"
          /\ \E call \in {"os.open", "os.fsync"} :
                aw_warned' = DurabilityWarning(OsErrorStr(call))
          /\ UNCHANGED ddir
    /\ aw_pc' = "done"
    /\ aw_result' = "returned"
    /\ UNCHANGED <<old_exists, old_doc, new_doc, cdir, cdata, ddata, imode,
                   aw_err, aw_unlink_failed, aw_crash, reader_saw, awOther>>

(***************************************************************************)
(* The environment of a write: the kernel's write-back, a concurrent       *)
(* reader, and the two ways the writing process can stop at any step.      *)
(***************************************************************************)
\* the kernel writes some more of the temp file's cached data
WriteBackData ==
    /\ aw_crash # "powerloss"
    /\ \E k \in (Len(ddata[TmpInode]) + 1)..Len(cdata[TmpInode]) :
          ddata' = [ddata EXCEPT ![TmpInode] = SubSeq(cdata[TmpInode], 1, k)]
    /\ UNCHANGED <<old_exists, old_doc, new_doc, cdir, cdata, ddir, imode, aw_pc,
                   aw_err, aw_failed, aw_unlink_failed, aw_warned, aw_result,
                   aw_crash, reader_saw, awOther>>

\* the kernel writes the directory
WriteBackDir ==
    /\ aw_crash # "powerloss"
    /\ ddir # cdir
    /\ ddir' = cdir
    /\ UNCHANGED <<old_exists, old_doc, new_doc, cdir, cdata, ddata, imode, aw_pc,
                   aw_err, aw_failed, aw_unlink_failed, aw_warned, aw_result,
                   aw_crash, reader_saw, awOther>>

\* the process is killed between two steps: the files stay as they are
Kill ==
    /\ AwRunning /\ aw_pc # "done"
    /\ aw_crash' = "killed"
    /\ UNCHANGED <<old_exists, old_doc, new_doc, cdir, cdata, ddir, ddata, imode,
                   aw_pc, aw_err, aw_failed, aw_unlink_failed, aw_warned,
                   aw_result, reader_saw, awOther>>

\* the machine loses power: what was on stable storage is what is left
PowerLoss ==
    /\ AwRunning /\ aw_pc # "done"
    /\ aw_crash' = "powerloss"
    /\ cdir' = ddir
    /\ cdata' = ddata
    /\ UNCHANGED <<old_exists, old_doc, new_doc, ddir, ddata, imode, aw_pc,
                   aw_err, aw_failed, aw_unlink_failed, aw_warned, aw_result,
                   reader_saw, awOther>>

\* another process opens the target and reads it to the end
ReadTarget ==
    /\ aw_pc # "idle"
    /\ reader_saw' = IF cdir.target = 0
                     THEN [found |-> FALSE, text |-> <<>>]
                     ELSE [found |-> TRUE, text |-> cdata[cdir.target]]
    /\ reader_saw' # reader_saw
    /\ UNCHANGED <<old_exists, old_doc, new_doc, cdir, cdata, ddir, ddata, imode,
                   aw_pc, aw_err, aw_failed, aw_unlink_failed, aw_warned,
                   aw_result, aw_crash, awOther>>

(***************************************************************************)
(* validate_image_file.  A file is its bytes together with what Pillow     *)
(* finds when decoding them: the header's dimensions and the state of the  *)
(* chunks after the header.  The byte size the filesystem reports is kept  *)
(* apart from the modelled bytes, which stand for the start and the end of *)
(* the file.                                                               *)
(***************************************************************************)
None == 0 - 1

HARD_MAX_FILE_SIZE_BYTES == 50 * 1024 * 1024
HARD_MAX_TOTAL_SIZE_BYTES == 200 * 1024 * 1024
MAX_IMAGE_FILE_SIZE_BYTES == HARD_MAX_FILE_SIZE_BYTES
MAX_TOTAL_IMAGE_SIZE_BYTES == HARD_MAX_TOTAL_SIZE_BYTES
MAX_IMAGE_PIXELS == 89478485
PNG_TRAILER == <<0, 0, 0, 0, 73, 69, 78, 68, 174, 66, 96, 130>>
JPEG_TRAILER == <<255, 217>>
GIF_TRAILER == <<59>>

\* the signatures Pillow's plugins accept
PNG_MAGIC == <<137, 80, 78, 71, 13, 10, 26, 10>>
JPEG_MAGIC == <<255, 216, 255>>
GIF_MAGIC == <<71, 73, 70, 56, 57, 97>>
BMP_MAGIC == <<66, 77>>
\* Pillow's own Image.MAX_IMAGE_PIXELS
PIL_MAX_IMAGE_PIXELS == ((1024 * 1024 * 1024) \div 4) \div 3

StartsWith(bytes, prefix) ==
    /\ Len(bytes) >= Len(prefix)
    /\ SubSeq(bytes, 1, Len(prefix)) = prefix

\* bytes.endswith
EndsWith(bytes, suffix) ==
    /\ Len(bytes) >= Len(suffix)
    /\ SubSeq(bytes, Len(bytes) - Len(suffix) + 1, Len(bytes)) = suffix

\* the format Image.open identifies from the leading bytes
PilFormat(bytes) ==
    IF StartsWith(bytes, PNG_MAGIC) THEN "PNG"
    ELSE IF StartsWith(bytes, JPEG_MAGIC) THEN "JPEG"
    ELSE IF StartsWith(bytes, GIF_MAGIC) THEN "GIF"
    ELSE IF StartsWith(bytes, BMP_MAGIC) THEN "BMP"
    ELSE "NONE"

\* Image.open(file_path) with DecompressionBombWarning turned into an error:
\* "opened", or the exception it raises
ImageOpen(file) ==
    IF ~file.present THEN "OSError"
    ELSE IF PilFormat(file.bytes) = "NONE" THEN "UnidentifiedImageError"
    ELSE IF file.width * file.height > 2 * PIL_MAX_IMAGE_PIXELS
        THEN "DecompressionBombError"
    ELSE IF file.width * file.height > PIL_MAX_IMAGE_PIXELS
        THEN "DecompressionBombWarning"
    ELSE "opened"

\* img.verify(): only the PNG plugin reads on; a chunk cut short is an
\* OSError, a chunk with a bad checksum is a SyntaxError
ImageVerify(file) ==
    IF PilFormat(file.bytes) = "PNG" /\ file.body = "truncated" THEN "OSError"
    ELSE IF PilFormat(file.bytes) = "PNG" /\ file.body = "badcrc" THEN "SyntaxError"
    ELSE "verified"

\* the except clauses without the one for decompression bombs
ExceptClausesNoBomb(exc) ==
    IF exc \in {"OSError", "UnidentifiedImageError"}
        THEN "ValueError:NotValidImage"
    ELSE exc

\* the except clauses of validate_image_file: what the caller sees for an
\* exception raised inside the try block
ExceptClauses(exc) ==
    IF exc \in {"DecompressionBombError", "DecompressionBombWarning"}
        THEN "ValueError:DimensionsTooLarge"
    ELSE IF exc \in {"OSError", "UnidentifiedImageError"}
        THEN "ValueError:NotValidImage"
    ELSE exc

\* a format check that lets BMP through as well
SupportedFormatOrBmp(fmt) == fmt \in {"PNG", "JPEG", "GIF", "BMP"}

SupportedFormat(fmt) == fmt \in {"PNG", "JPEG", "GIF"}

\* the three endswith tests
HasTrailer(fmt, bytes) ==
    /\ fmt = "PNG" => EndsWith(bytes, PNG_TRAILER)
    /\ fmt = "JPEG" => EndsWith(bytes, JPEG_TRAILER)
    /\ fmt = "GIF" => EndsWith(bytes, GIF_TRAILER)

VfRaise(err) ==
    /\ vf_pc' = "done"
    /\ vf_result' = err
    /\ UNCHANGED img_format

VfArgs == <<vf_file, max_size_bytes, file_size>>

\* the size limit in force
VfMaxSize ==
    IF max_size_bytes = None THEN MAX_IMAGE_FILE_SIZE_BYTES ELSE max_size_bytes

\* a size always taken from stat()
VfStatSize == vf_file.st_size

\* size_value, when stat() does not raise
VfSizeValue == IF file_size # None THEN file_size ELSE vf_file.st_size

VfSizeCheck ==
    /\ vf_pc = "size"
    /\ IF file_size = None /\ ~vf_file.present
          THEN VfRaise("ValueError:CannotRead")
       ELSE IF VfSizeValue > VfMaxSize
          THEN VfRaise("ValueError:TooLarge")
       ELSE /\ vf_pc' = "open"
            /\ UNCHANGED <<img_format, vf_result>>
    /\ UNCHANGED <<VfArgs, vfOther>>

VfOpen ==
    /\ vf_pc = "open"
    /\ LET opened == ImageOpen(vf_file)
       IN IF opened # "opened"
             THEN VfRaise(ExceptClauses(opened))
          ELSE IF ~SupportedFormat(PilFormat(vf_file.bytes))
             THEN VfRaise("ValueError:Unsupported")
          ELSE /\ img_format' = PilFormat(vf_file.bytes)
               /\ vf_pc' = "verify"
               /\ UNCHANGED vf_result
    /\ UNCHANGED <<VfArgs, vfOther>>

VfVerify ==
    /\ vf_pc = "verify"
    /\ LET verified == ImageVerify(vf_file)
       IN IF verified # "verified"
             THEN VfRaise(ExceptClauses(verified))
          ELSE /\ vf_pc' = "dims"
               /\ UNCHANGED <<img_format, vf_result>>
    /\ UNCHANGED <<VfArgs, vfOther>>

VfDims ==
    /\ vf_pc = "dims"
    /\ LET opened == ImageOpen(vf_file)
       IN IF opened # "opened"
             THEN VfRaise(ExceptClauses(opened))
          ELSE IF vf_file.width * vf_file.height > MAX_IMAGE_PIXELS
             THEN VfRaise("ValueError:DimensionsTooLarge")
          ELSE /\ vf_pc' = "trailer"
               /\ UNCHANGED <<img_format, vf_result>>
    /\ UNCHANGED <<VfArgs, vfOther>>

VfTrailer ==
    /\ vf_pc = "trailer"
    /\ IF ~HasTrailer(img_format, vf_file.bytes)
          THEN VfRaise("ValueError:TrailingData")
       ELSE /\ vf_pc' = "done"
            /\ vf_result' = "True"
            /\ UNCHANGED img_format
    /\ UNCHANGED <<VfArgs, vfOther>>

(***************************************************************************)
(* get_size_limits.  A config value is tagged with its Python type; a      *)
(* number of megabytes is the fraction num/den.  A number of bytes that    *)
(* may exceed the hard ceilings is kept as whole MiB plus a remainder.     *)
(***************************************************************************)
MiB == 1024 * 1024

NoneValue == [type |-> "NoneType", num |-> 0, den |-> 1]
StrValue == [type |-> "str", num |-> 0, den |-> 1]
BoolValue(b) == [type |-> "bool", num |-> IF b THEN 1 ELSE 0, den |-> 1]
IntValue(n) == [type |-> "int", num |-> n, den |-> 1]
FloatValue(n, d) == [type |-> "float", num |-> n, den |-> d]
InfValue == [type |-> "float:inf", num |-> 1, den |-> 1]
NegInfValue == [type |-> "float:-inf", num |-> 0 - 1, den |-> 1]
NanValue == [type |-> "float:nan", num |-> 0, den |-> 1]

\* isinstance(value, (int, float)): bool is a subclass of int
IsIntOrFloat(value) ==
    value.type \in {"bool", "int", "float", "float:inf", "float:-inf", "float:nan"}

\* value > 0: every comparison with nan is False
Positive(value) == value.type # "float:nan" /\ value.num > 0

\* value * 1024 * 1024 cannot be converted by int() when it is infinite
Overflows(value) == value.type = "float:inf"

\* int(value * 1024 * 1024) for a finite positive value
MbToBytes(value) ==
    [mib |-> value.num \div value.den,
     rem |-> ((value.num % value.den) * MiB) \div value.den]

\* min(limit_bytes, hard), hard being a whole number of MiB
MinWithHard(limit, hard) ==
    IF limit.mib >= hard \div MiB THEN hard ELSE limit.mib * MiB + limit.rem

\* config.get(key, default)
ConfigGet(config, key, default) ==
    IF key \in DOMAIN config THEN config[key] ELSE default

\* the aggregate limit for a non-positive configured number
NonPositiveTotalLimit == HARD_MAX_TOTAL_SIZE_BYTES

get_size_limits(config) ==
    LET file_limit_mb ==
            ConfigGet(config, "max_file_size_mb",
                      IntValue(MAX_IMAGE_FILE_SIZE_BYTES \div MiB))
        total_limit_mb ==
            ConfigGet(config, "max_total_size_mb",
                      IntValue(MAX_TOTAL_IMAGE_SIZE_BYTES \div MiB))
        file_requested == IsIntOrFloat(file_limit_mb) /\ Positive(file_limit_mb)
        total_requested == IsIntOrFloat(total_limit_mb) /\ Positive(total_limit_mb)
    IN  IF \/ file_requested /\ Overflows(file_limit_mb)
           \/ total_requested /\ Overflows(total_limit_mb)
            THEN [status |-> "OverflowError",
                  file_limit_bytes |-> None, total_limit_bytes |-> None]
        ELSE [status |-> "returned",
              file_limit_bytes |->
                  IF file_requested
                      THEN MinWithHard(MbToBytes(file_limit_mb),
                                       HARD_MAX_FILE_SIZE_BYTES)
                  ELSE MinWithHard([mib |-> MAX_IMAGE_FILE_SIZE_BYTES \div MiB,
                                    rem |-> 0], HARD_MAX_FILE_SIZE_BYTES),
              total_limit_bytes |->
                  IF total_requested
                      THEN MinWithHard(MbToBytes(total_limit_mb),
                                       HARD_MAX_TOTAL_SIZE_BYTES)
                  ELSE IF IsIntOrFloat(total_limit_mb)
                      THEN NonPositiveTotalLimit
                  ELSE MAX_TOTAL_IMAGE_SIZE_BYTES]

SlGetSizeLimits ==
    /\ sl_pc = "call"
    /\ sl_result' = get_size_limits(sl_config)
    /\ sl_pc' = "done"
    /\ UNCHANGED <<sl_config, slOther>>

(***************************************************************************)
(* write_config_safely(config_file_path, config_data)                      *)
(* The config path is the target name of the directory above; when it is a *)
(* symlink, cdir.target is the inode the link leads to (0 when dangling).  *)
(***************************************************************************)
\* a test that never finds a symlink
ConfigIsSymlinkNever == FALSE

\* config_file_path.is_symlink()
ConfigIsSymlink == wc_link # "none"

\* config_file_path.exists(): follows the link
ConfigExists == cdir.target # 0

\* what write_config_safely leaves alone in the writer's state until it
\* calls atomic_write_json
AwUntouched ==
    UNCHANGED <<old_exists, old_doc, new_doc, cdir, cdata, ddir, ddata, aw_pc,
                aw_err, aw_failed, aw_unlink_failed, aw_warned, aw_result,
                aw_crash, reader_saw>>

WcSymlinkCheck ==
    /\ wc_pc = "symcheck"
    /\ IF ConfigIsSymlink
          THEN wc_pc' = "done" /\ wc_result' = "SecurityError"
          ELSE wc_pc' = "perms" /\ UNCHANGED wc_result
    /\ AwUntouched
    /\ UNCHANGED <<imode, wc_link, wc_warnings, wcOther>>

\* stat() and chmod() follow the link; a failed chmod is only warned about
WcPerms ==
    /\ wc_pc = "perms"
    /\ IF ConfigExists /\ imode[cdir.target] # CONFIG_FILE_PERMISSIONS
          THEN \/ /\ imode' = [imode EXCEPT ![cdir.target] = CONFIG_FILE_PERMISSIONS]
                  /\ wc_warnings' = wc_warnings \cup {"PermissionsTooOpen"}
               \/ /\ UNCHANGED imode
                  /\ wc_warnings' =
                         wc_warnings \cup {"PermissionsTooOpen", "CouldNotFix"}
          ELSE UNCHANGED <<imode, wc_warnings>>
    /\ wc_pc' = "write"
    /\ AwUntouched
    /\ UNCHANGED <<wc_link, wc_result, wcOther>>

\* the call of atomic_write_json
WcWrite ==
    /\ wc_pc = "write"
    /\ aw_pc = "idle"
    /\ aw_pc' = "mkstemp"
    /\ wc_pc' = "writing"
    /\ UNCHANGED <<old_exists, old_doc, new_doc, cdir, cdata, ddir, ddata, imode,
                   aw_err, aw_failed, aw_unlink_failed, aw_warned, aw_result,
                   aw_crash, reader_saw>>
    /\ UNCHANGED <<wc_link, wc_warnings, wc_result, wcOther>>

\* atomic_write_json returned or raised: so does write_config_safely
WcReturn ==
    /\ wc_pc = "writing"
    /\ aw_pc = "done"
    /\ wc_pc' = "done"
    /\ wc_result' = aw_result
    /\ UNCHANGED <<awVars, wc_link, wc_warnings, wcOther>>

(***************************************************************************)
(* fetch(source, destination, ..., allow_symlinks, image_path) with an     *)
(* image_path argument. fs and path_len describe image_path; the source    *)
(* and destination directories are other paths, so only the outcome of     *)
(* their resolution appears here.                                          *)
(***************************************************************************)
\* a fetch that never asks for the symlink check
CheckSymlinkNever == FALSE

\* check_symlink=not allow_symlinks
CheckSymlink == ~allow_symlinks

\* sys.exit(1)
FeExit(step) ==
    /\ fe_pc' = "done"
    /\ fe_exit_at' = step
    /\ exit_code' = 1

\* lines 932-949: the source directory resolves, or the run ends
FeSource ==
    /\ fe_pc = "source"
    /\ \/ fe_pc' = "destination" /\ UNCHANGED <<fe_exit_at, exit_code>>
       \/ FeExit("source")
    /\ UNCHANGED <<allow_symlinks, fe_log, destination_files, rpVars, feOther>>

\* lines 951-968: the destination directory resolves, or the run ends
FeDestination ==
    /\ fe_pc = "destination"
    /\ \/ fe_pc' = "format" /\ UNCHANGED <<fe_exit_at, exit_code>>
       \/ FeExit("destination")
    /\ UNCHANGED <<allow_symlinks, fe_log, destination_files, rpVars, feOther>>

\* lines 970-982: the output format is a known one, or the run ends
FeOutputFormat ==
    /\ fe_pc = "format"
    /\ \/ fe_pc' = "image" /\ UNCHANGED <<fe_exit_at, exit_code>>
       \/ FeExit("output format")
    /\ UNCHANGED <<allow_symlinks, fe_log, destination_files, rpVars, feOther>>

\* line 992: the call of resolve_path_safely(image_path, ...)
FeResolveImage ==
    /\ fe_pc = "image"
    /\ image_path_given
    /\ rp_pc = "idle"
    /\ fe_pc' = "resolving"
    /\ check_symlink' = CheckSymlink
    /\ rp_pc' = "start"
    /\ UNCHANGED <<rp_cur, rp_result>>
    /\ UNCHANGED <<allow_symlinks, fe_log, destination_files, fe_exit_at, exit_code,
                   feOther>>

\* lines 992, 996-1017: resolve_path_safely returned or raised. ValueError
\* and FileNotFoundError are caught; any other OSError ends the run too
FeImageResolved ==
    /\ fe_pc = "resolving"
    /\ rp_pc = "done"
    /\ IF rp_result = "returned"
          THEN /\ fe_pc' = "validate"
               /\ UNCHANGED <<fe_exit_at, exit_code>>
       ELSE IF rp_result \in ValueErrors
          THEN FeExit("symlink check")
       ELSE IF rp_result = "FileNotFoundError"
          THEN FeExit("not found")
       ELSE FeExit("uncaught")
    /\ UNCHANGED <<allow_symlinks, fe_log, destination_files, rpVars, feOther>>

\* lines 995-1009: validate_image_file opens and reads the file; its
\* ValueError ends the run, and so does an exception nothing catches
FeValidate ==
    /\ fe_pc = "validate"
    /\ fe_log' = fe_log \cup {"validated"}
    /\ IF image_result = "True"
          THEN fe_pc' = "copy" /\ UNCHANGED <<fe_exit_at, exit_code>>
       ELSE IF image_result = "ValueError"
          THEN FeExit("validation")
       ELSE FeExit("uncaught")
    /\ UNCHANGED <<allow_symlinks, destination_files, rpVars, feOther>>

\* lines 1021-1031: copy_screenshots validates again and copies the file,
\* or skips it with a warning; the run goes on to print the copied paths
FeCopy ==
    /\ fe_pc = "copy"
    /\ \/ /\ fe_log' = fe_log \cup {"copied"}
          /\ destination_files' = destination_files + 1
       \/ UNCHANGED <<fe_log, destination_files>>
    /\ fe_pc' = "done"
    /\ exit_code' = 0
    /\ UNCHANGED <<allow_symlinks, fe_exit_at, rpVars, feOther>>

(***************************************************************************)
(* The configuration schema and read_config(config_file_path).             *)
(* A document is a mapping from field names to values.                     *)
(***************************************************************************)
PyBool(b) == [type |-> "bool", value |-> b]
PyInt(n) == [type |-> "int", value |-> n]

SchemaFields ==
    {"default_source", "default_destination", "auto_stage_enabled",
     "default_output_format", "default_convert_to", "max_file_size_mb",
     "max_total_size_mb"}

DEFAULT_CONFIG ==
    [field \in SchemaFields |->
        CASE field = "default_source" -> PyStr("")
          [] field = "default_destination" -> PyStr("")
          [] field = "auto_stage_enabled" -> PyBool(FALSE)
          [] field = "default_output_format" -> PyStr("markdown")
          [] field = "default_convert_to" -> PyNone
          [] field = "max_file_size_mb" -> PyInt(MAX_IMAGE_FILE_SIZE_BYTES \div MiB)
          [] field = "max_total_size_mb" -> PyInt(MAX_TOTAL_IMAGE_SIZE_BYTES \div MiB)]

VALID_OUTPUT_FORMATS == {"markdown", "html", "text"}
VALID_CONVERT_FORMATS == {"png", "jpg", "jpeg", "webp", "gif"}

Raised(name) == [type |-> "exception", value |-> name]

\* str.casefold() and str.lower() on the strings that occur
Casefold(s) ==
    CASE s = "HTML" -> "html"
      [] s = "PNG" -> "png"
      [] OTHER -> s

\* line 106: str(resolve_path_safely(value)) returns the path or raises
\* what resolve_path_safely raises (st_resolves)
normalize_optional_directory(value) ==
    IF value = PyNone THEN PyStr("")
    ELSE IF value.type # "str" THEN Raised("TypeError")
    ELSE IF value.value = "" THEN PyStr("")
    ELSE IF st_resolves = "returned" THEN value
    ELSE Raised(st_resolves)

normalize_bool(value) ==
    IF value.type = "bool" THEN value
    ELSE IF value.type = "str" /\ value.value \in {"true", "1", "yes", "y", "on"}
         THEN PyBool(TRUE)
    ELSE IF value.type = "str" /\ value.value \in {"false", "0", "no", "n", "off"}
         THEN PyBool(FALSE)
    ELSE Raised("TypeError")

normalize_output_format(value) ==
    IF value.type # "str" THEN Raised("TypeError")
    ELSE IF Casefold(value.value) \notin VALID_OUTPUT_FORMATS THEN Raised("ValueError")
    ELSE PyStr(Casefold(value.value))

normalize_default_convert_to(value) ==
    IF value = PyNone THEN PyNone
    ELSE IF value.type # "str" THEN Raised("TypeError")
    ELSE IF value.value = "" THEN PyNone
    ELSE IF Casefold(value.value) \notin VALID_CONVERT_FORMATS THEN Raised("ValueError")
    ELSE PyStr(Casefold(value.value))

normalize_int(value) ==
    IF value.type = "bool" THEN Raised("TypeError")
    ELSE IF value.type = "int" THEN value
    ELSE IF value.type = "str" THEN Raised("ValueError")
    ELSE Raised("TypeError")

\* CONFIG_FIELD_SPECS[field].normalize(value)
Normalize(field, value) ==
    CASE field \in {"default_source", "default_destination"} ->
            normalize_optional_directory(value)
      [] field = "auto_stage_enabled" -> normalize_bool(value)
      [] field = "default_output_format" -> normalize_output_format(value)
      [] field = "default_convert_to" -> normalize_default_convert_to(value)
      [] field \in {"max_file_size_mb", "max_total_size_mb"} -> normalize_int(value)

\* the files of the config directory: a JSON object, other text, or no file
NoDoc == [field \in {} |-> PyNone]
AbsentFile == [kind |-> "absent", doc |-> NoDoc, text |-> ""]
JsonFile(doc) == [kind |-> "json", doc |-> doc, text |-> ""]
TextFile(text) == [kind |-> "text", doc |-> NoDoc, text |-> text]

NoBackups == [index \in {} |-> AbsentFile]

\* range(1, 1000) of _next_available_backup_path
BACKUP_INDEX_END == 1000

\* _next_available_backup_path: the first index whose name does not exist,
\* BACKUP_INDEX_END when every candidate exists (OSError)
BackupExists(index) == index \in old_backups \/ index \in DOMAIN backups

NextAvailableBackupIndex ==
    IF ~BackupExists(0) THEN 0
    ELSE IF \E index \in 1..(BACKUP_INDEX_END - 1) : ~BackupExists(index)
         THEN CHOOSE index \in 1..(BACKUP_INDEX_END - 1) :
                 /\ ~BackupExists(index)
                 /\ \A lower \in 1..(index - 1) : BackupExists(lower)
    ELSE BACKUP_INDEX_END

\* Path.replace(backup_path): the rename takes the name away from the source
\* and gives it to the target, whatever the target was
RenameTo(index) ==
    /\ backups' = [i \in DOMAIN backups \cup {index} |->
                      IF i = index THEN rc_file ELSE backups[i]]
    /\ old_backups' = IF index \in old_backups THEN old_backups \ {index}
                                                ELSE old_backups
    /\ rc_file' = AbsentFile

\* lines 1457-1459, 1487: open and json.load; a document that parses is
\* returned as it is
RcLoad ==
    /\ rc_pc = "load"
    /\ IF rc_file.kind = "json"
          THEN /\ rc_config' = rc_file.doc
               /\ rc_pc' = "done"
               /\ UNCHANGED rc_warnings
          ELSE /\ rc_pc' = "backup"
               /\ rc_warnings' = rc_warnings \cup {"Corrupted"}
               /\ UNCHANGED rc_config
    /\ UNCHANGED <<rc_file, old_backups, backups, dir_writable, interactive,
                   rc_exit, rc_file_before, backups_before, rcOther>>

\* _backup_corrupted_file_or_warn: any OSError is only warned about
RcBackup ==
    /\ rc_pc = "backup"
    /\ IF NextAvailableBackupIndex # BACKUP_INDEX_END /\ dir_writable
          THEN /\ RenameTo(NextAvailableBackupIndex)
               /\ UNCHANGED rc_warnings
          ELSE /\ rc_warnings' = rc_warnings \cup {"CouldNotBackUp"}
               /\ UNCHANGED <<rc_file, old_backups, backups>>
    /\ rc_pc' = IF interactive THEN "prompt" ELSE "reset"
    /\ UNCHANGED <<dir_writable, interactive, rc_config, rc_exit, rc_file_before,
                   backups_before, rcOther>>

\* write_config_or_exit: the document replaces the file as a whole, or the
\* file stays as it is and the process exits
WriteConfigOrExit(doc) ==
    IF dir_writable
       THEN /\ rc_file' = JsonFile(doc)
            /\ rc_config' = doc
            /\ UNCHANGED rc_exit
       ELSE /\ rc_exit' = 1
            /\ UNCHANGED <<rc_file, rc_config>>

\* the documents write_config builds from the answers to its prompts
PromptedConfigs ==
    {DEFAULT_CONFIG,
     [DEFAULT_CONFIG EXCEPT !["default_output_format"] = PyStr("html"),
                            !["auto_stage_enabled"] = PyBool(TRUE)]}

\* lines 1469-1472: write_config asks for every field and writes the
\* answers; the file is read again and returned
RcPrompt ==
    /\ rc_pc = "prompt"
    /\ \E doc \in PromptedConfigs : WriteConfigOrExit(doc)
    /\ rc_pc' = "done"
    /\ UNCHANGED <<old_backups, backups, dir_writable, interactive, rc_warnings,
                   rc_file_before, backups_before, rcOther>>

\* lines 1483-1485: the directory is there already; the defaults are
\* written and returned
RcReset ==
    /\ rc_pc = "reset"
    /\ WriteConfigOrExit(DEFAULT_CONFIG)
    /\ rc_pc' = "done"
    /\ UNCHANGED <<old_backups, backups, dir_writable, interactive, rc_warnings,
                   rc_file_before, backups_before, rcOther>>

(***************************************************************************)
(* The single-field setters and _write_config_field(field, normalized).    *)
(***************************************************************************)
\* the field each setter writes; update_config_field takes it as argument
SetterField(setter) ==
    CASE setter = "set_default_source" -> "default_source"
      [] setter = "set_default_destination" -> "default_destination"
      [] setter = "set_auto_stage" -> "auto_stage_enabled"
      [] setter = "set_default_output_format" -> "default_output_format"
      [] setter = "set_default_convert_to" -> "default_convert_to"

\* line 1746: except (ValueError, TypeError, FileNotFoundError)
Caught(exception) == exception \in {"ValueError", "TypeError", "FileNotFoundError"}

\* what each setter does with its argument before _write_config_field:
\* the normalized value, or the way it gives up
SetterValue(setter, field, arg) ==
    CASE setter \in {"set_default_source", "set_default_destination"} ->
            IF arg.value = "" THEN PyStr("")
            ELSE IF st_resolves = "returned" THEN arg
            ELSE IF st_resolves \in {"ValueError", "FileNotFoundError"}
                 THEN Raised("SystemExit")
            ELSE Raised(st_resolves)
      [] setter = "set_default_output_format" ->
            IF Casefold(arg.value) \notin VALID_OUTPUT_FORMATS
               THEN Raised("SystemExit")
               ELSE PyStr(Casefold(arg.value))
      [] setter = "set_default_convert_to" ->
            IF normalize_default_convert_to(arg).type = "exception"
               THEN Raised("SystemExit")
               ELSE normalize_default_convert_to(arg)
      [] setter \in {"update_config_field", "set_auto_stage"} ->
            IF field \notin SchemaFields THEN Raised("ClickException")
            ELSE IF Normalize(field, arg).type = "exception"
                 THEN IF Caught(Normalize(field, arg).value)
                         THEN Raised("ClickException")
                      ELSE Normalize(field, arg)
            ELSE Normalize(field, arg)

\* a setter that starts from the defaults instead of the document it read
SetFieldOnDefaults(config, field, value) ==
    [f \in SchemaFields |-> IF f = field THEN value ELSE DEFAULT_CONFIG[f]]

\* config[field] = normalized_value
SetField(config, field, value) ==
    [f \in DOMAIN config \cup {field} |-> IF f = field THEN value ELSE config[f]]

\* the setter's own validation and normalization
StCheck ==
    /\ st_pc = "check"
    /\ IF SetterValue(st_setter, st_field, st_arg).type = "exception"
          THEN /\ st_error' = SetterValue(st_setter, st_field, st_arg).value
               /\ st_pc' = "done"
               /\ UNCHANGED st_value
          ELSE /\ st_value' = SetterValue(st_setter, st_field, st_arg)
               /\ st_pc' = "path"
               /\ UNCHANGED st_error
    /\ UNCHANGED <<st_setter, st_arg, st_resolves, st_field, rcVars, stOther>>

\* line 1722, get_config_file_path_or_exit: a missing config file is created
\* with the defaults; a failure of that write is not caught
StConfigPath ==
    /\ st_pc = "path"
    /\ IF rc_file.kind # "absent"
          THEN /\ st_pc' = "read"
               /\ UNCHANGED <<rc_file, st_error>>
       ELSE IF dir_writable
          THEN /\ rc_file' = JsonFile(DEFAULT_CONFIG)
               /\ st_pc' = "read"
               /\ UNCHANGED st_error
       ELSE /\ st_error' = "OSError"
            /\ st_pc' = "done"
            /\ UNCHANGED rc_file
    /\ UNCHANGED <<old_backups, backups, dir_writable, interactive, rc_pc, rc_config,
                   rc_warnings, rc_exit, rc_file_before, backups_before>>
    /\ UNCHANGED <<st_setter, st_arg, st_resolves, st_field, st_value, stOther>>

\* line 1723: the call of read_config
StRead ==
    /\ st_pc = "read"
    /\ rc_pc = "idle"
    /\ rc_pc' = "load"
    /\ st_pc' = "reading"
    /\ UNCHANGED <<rc_file, old_backups, backups, dir_writable, interactive,
                   rc_config, rc_warnings, rc_exit, rc_file_before, backups_before>>
    /\ UNCHANGED <<st_setter, st_arg, st_resolves, st_field, st_value, st_error,
                   stOther>>

\* lines 1724-1726: read_config returned; the field is set in the mapping
\* it returned and the whole mapping is written back
StWrite ==
    /\ st_pc = "reading"
    /\ rc_pc = "done"
    /\ IF rc_exit # None
          THEN /\ st_error' = "SystemExit"
               /\ UNCHANGED <<rc_file, rc_config, rc_exit>>
          ELSE /\ WriteConfigOrExit(SetField(rc_config, st_field, st_value))
               /\ st_error' = IF dir_writable THEN "none" ELSE "SystemExit"
    /\ st_pc' = "done"
    /\ UNCHANGED <<old_backups, backups, dir_writable, interactive, rc_pc,
                   rc_warnings, rc_file_before, backups_before>>
    /\ UNCHANGED <<st_setter, st_arg, st_resolves, st_field, st_value, stOther>>

(***************************************************************************)
(* fetch without an image_path: get_screenshots(source, count, ...) and    *)
(* copy_screenshots(screenshots, destination, ...). A file is named by its *)
(* index in source_entries.                                                *)
(***************************************************************************)
\* Path(entry.name).suffix.lower() in SUPPORTED_EXTENSIONS
SupportedExtension(entry) == entry.ext

\* file_path.stat(): follows a symlink to its target; "OSError" when there
\* is nothing to stat
Stat(entry) ==
    IF entry.kind = "broken" THEN "OSError"
    ELSE IF entry.kind = "dir" THEN "S_IFDIR"
    ELSE "S_IFREG"

S_ISREG(st_mode) == st_mode = "S_IFREG"

\* lines 1101-1113: the entries that get as far as validate_image_file
ReachesValidation(entry) == SupportedExtension(entry) /\ S_ISREG(Stat(entry))

\* the first position of seq whose file has the largest st_mtime
Newest(seq) ==
    CHOOSE k \in 1..Len(seq) :
        /\ \A j \in 1..Len(seq) :
              source_entries[seq[j]].st_mtime <= source_entries[seq[k]].st_mtime
        /\ \A j \in 1..(k - 1) :
              source_entries[seq[j]].st_mtime < source_entries[seq[k]].st_mtime

Without(seq, k) == SubSeq(seq, 1, k - 1) \o SubSeq(seq, k + 1, Len(seq))

\* heapq.nlargest(count, file_stats, key=st_mtime): newest first, equal
\* times in the order of file_stats
RECURSIVE NLargest(_, _)
NLargest(n, seq) ==
    IF n <= 0 \/ seq = <<>> THEN <<>>
    ELSE <<seq[Newest(seq)]>> \o NLargest(n - 1, Without(seq, Newest(seq)))

\* line 1034: the call of get_screenshots; os.scandir may raise OSError
FeScanStart ==
    /\ fe_pc = "image"
    /\ ~image_path_given
    /\ \/ fe_pc' = "scan" /\ UNCHANGED <<fe_exit_at, exit_code>>
       \/ FeExit("scandir")
    /\ bf_i' = 1
    /\ UNCHANGED <<allow_symlinks, fe_log, destination_files>>
    /\ UNCHANGED <<image_path_given, image_result, source_entries, count,
                   max_total_size_bytes, file_stats, screenshots, gs_skipped,
                   cs_unreadable, cs_skipped, total_size, limit_reached,
                   copied_screenshots, bfOther>>

\* lines 1099-1123: one turn of `for entry in entries`
GsScanEntry ==
    /\ fe_pc = "scan"
    /\ bf_i <= Len(source_entries)
    /\ LET entry == source_entries[bf_i] IN
          IF ~ReachesValidation(entry)
             THEN UNCHANGED <<file_stats, gs_skipped, fe_pc, fe_exit_at, exit_code>>
          ELSE IF entry.valid = "True"
             THEN /\ file_stats' = Append(file_stats, bf_i)
                  /\ UNCHANGED <<gs_skipped, fe_pc, fe_exit_at, exit_code>>
          ELSE IF entry.valid = "ValueError"
             THEN /\ gs_skipped' = gs_skipped \cup {bf_i}
                  /\ UNCHANGED <<file_stats, fe_pc, fe_exit_at, exit_code>>
          ELSE \* neither `except ValueError` nor `except OSError` catches it
               /\ FeExit("uncaught")
               /\ UNCHANGED <<file_stats, gs_skipped>>
    /\ bf_i' = bf_i + 1
    /\ UNCHANGED <<allow_symlinks, fe_log, destination_files>>
    /\ UNCHANGED <<image_path_given, image_result, source_entries, count,
                   max_total_size_bytes, screenshots, cs_unreadable, cs_skipped,
                   total_size, limit_reached, copied_screenshots, bfOther>>

\* lines 1125-1155: the newest `count` files, or the run ends when there
\* are none or fewer than asked for
GsSelect ==
    /\ fe_pc = "scan"
    /\ bf_i > Len(source_entries)
    /\ IF Len(NLargest(count, file_stats)) = 0
          THEN FeExit("no screenshots") /\ UNCHANGED <<screenshots, bf_i>>
       ELSE IF Len(NLargest(count, file_stats)) < count
          THEN FeExit("too few screenshots") /\ UNCHANGED <<screenshots, bf_i>>
       ELSE /\ screenshots' = NLargest(count, file_stats)
            /\ fe_pc' = "batch"
            /\ bf_i' = 1
            /\ UNCHANGED <<fe_exit_at, exit_code>>
    /\ UNCHANGED <<allow_symlinks, fe_log, destination_files>>
    /\ UNCHANGED <<image_path_given, image_result, source_entries, count,
                   max_total_size_bytes, file_stats, gs_skipped, cs_unreadable,
                   cs_skipped, total_size, limit_reached, copied_screenshots,
                   bfOther>>

\* `continue`
NextAfterSkip(i) == i + 1

\* a limit that is never looked at
ExceedsLimitNever(total, limit) == FALSE

\* total_limit is not None and total_size > total_limit
ExceedsLimit(total, limit) == limit # None /\ total > limit

\* lines 1185-1235: one turn of `for screenshot in screenshots`
CsCopyEntry ==
    /\ fe_pc = "batch"
    /\ bf_i <= Len(screenshots)
    /\ LET file == screenshots[bf_i]
           entry == source_entries[file]
       IN \/ \* screenshot.stat() raises OSError: warned about and skipped
             /\ cs_unreadable' = cs_unreadable \cup {file}
             /\ bf_i' = NextAfterSkip(bf_i)
             /\ UNCHANGED <<cs_skipped, total_size, limit_reached,
                            copied_screenshots, destination_files, fe_pc,
                            fe_exit_at, exit_code>>
          \/ \* validate_image_file raises ValueError
             /\ entry.still_valid = "ValueError"
             /\ cs_skipped' = cs_skipped \cup {file}
             /\ bf_i' = NextAfterSkip(bf_i)
             /\ UNCHANGED <<cs_unreadable, total_size, limit_reached,
                            copied_screenshots, destination_files, fe_pc,
                            fe_exit_at, exit_code>>
          \/ \* validate_image_file lets another exception through
             /\ entry.still_valid \notin {"True", "ValueError"}
             /\ FeExit("uncaught")
             /\ UNCHANGED <<cs_unreadable, cs_skipped, total_size, limit_reached,
                            copied_screenshots, destination_files, bf_i>>
          \/ \* the file is valid and exceeds the total limit: break
             /\ entry.still_valid = "True"
             /\ ExceedsLimit(total_size + entry.st_size, max_total_size_bytes)
             /\ total_size' = total_size + entry.st_size
             /\ limit_reached' = TRUE
             /\ bf_i' = Len(screenshots) + 1
             /\ UNCHANGED <<cs_unreadable, cs_skipped, copied_screenshots,
                            destination_files, fe_pc, fe_exit_at, exit_code>>
          \/ \* the file is valid and within the limit: shutil.copy
             /\ entry.still_valid = "True"
             /\ ~ExceedsLimit(total_size + entry.st_size, max_total_size_bytes)
             /\ total_size' = total_size + entry.st_size
             /\ \/ /\ copied_screenshots' = Append(copied_screenshots, file)
                   /\ destination_files' = destination_files + 1
                   /\ bf_i' = bf_i + 1
                   /\ UNCHANGED <<fe_pc, fe_exit_at, exit_code>>
                \/ \* OSError, raised as ValueError: fetch exits
                   /\ FeExit("copy")
                   /\ UNCHANGED <<copied_screenshots, destination_files, bf_i>>
             /\ UNCHANGED <<cs_unreadable, cs_skipped, limit_reached>>
    /\ UNCHANGED <<allow_symlinks, fe_log>>
    /\ UNCHANGED <<image_path_given, image_result, source_entries, count,
                   max_total_size_bytes, file_stats, screenshots, gs_skipped,
                   bfOther>>

\* line 1236: copy_screenshots returns; fetch prints the copied paths
CsReturn ==
    /\ fe_pc = "batch"
    /\ bf_i > Len(screenshots)
    /\ fe_pc' = "done"
    /\ exit_code' = 0
    /\ UNCHANGED <<allow_symlinks, fe_log, destination_files, fe_exit_at>>
    /\ UNCHANGED <<bfVars, bfOther>>

(***************************************************************************)
(* A concurrent actor.  create_directory_safely works on path names, one   *)
(* system call at a time; between two of its calls another process may     *)
(* replace a component of the path: by a symlink, by a directory of its    *)
(* own, or by nothing.                                                     *)
(***************************************************************************)
\* the changes the concurrent actor makes during one call
MaxSwaps == 1

\* what the actor puts in the place of a component
SwappedEntries ==
    {AbsentEnt, DirEnt("other", 493), DirEnt("other", 511),
     LinkEnt("other", "dir"), LinkEnt("other", "file")}

\* the re-validation of the component in progress has yet to look at
\* ancestor j
ParentCheckAhead(j) ==
    /\ j < md_idx
    /\ \/ md_pc \in {"pre", "mkdir", "post"}
       \/ md_pc = "parents" /\ md_pidx <= j

\* one change of component j; what lies beneath a directory or a symlink
\* to a directory is what lay there before, or nothing
RaSwap ==
    /\ md_pc \notin {"idle", "done"}
    /\ swaps < MaxSwaps
    /\ \E j \in 1..path_len, e \in SwappedEntries, keep \in BOOLEAN :
          /\ e # fs[j]
          /\ \A k \in 1..(j - 1) : Traversable(fs[k])
          /\ fs' = [i \in 1..MaxDepth |->
                       IF i = j THEN e
                       ELSE IF i > j /\ ~(keep /\ Traversable(e)) THEN AbsentEnt
                       ELSE fs[i]]
          /\ replaced' = IF ParentCheckAhead(j) /\ e.kind \in {"link", "absent"}
                            THEN replaced \cup {j}
                         ELSE replaced
          /\ raced' = IF md_pc = "mkdir" /\ j = md_idx /\ fs[j] = AbsentEnt
                         THEN raced \cup {j}
                      ELSE raced
    /\ swaps' = swaps + 1
    /\ UNCHANGED <<path_len, raOther>>

(***************************************************************************)
(* Two invocations of _write_config_field in two processes.  Neither takes *)
(* a lock: each one looks the config file up, reads the whole document,    *)
(* sets its field in the mapping it read and writes the whole mapping back *)
(* with one rename.  The steps of the two processes interleave freely.     *)
(***************************************************************************)
Procs == {1, 2}

\* a file written in place would be cut to nothing before it is filled
TruncateConfig(doc) == TextFile("")

\* atomic_write_json, os.replace: the file holds the old document until the
\* rename and the whole new document from the rename on
ReplaceConfig(doc) == JsonFile(doc)

\* line 1722, get_config_file_path_or_exit: a missing config file is created
\* with the defaults by write_config_safely; a failure ends the invocation
CcConfigPath(p) ==
    /\ cc_pc[p] = "path"
    /\ IF rc_file.kind # "absent"
          THEN /\ cc_pc' = [cc_pc EXCEPT ![p] = "read"]
               /\ UNCHANGED <<rc_file, cc_exit>>
       ELSE IF dir_writable
          THEN /\ rc_file' = ReplaceConfig(DEFAULT_CONFIG)
               /\ cc_pc' = [cc_pc EXCEPT ![p] = "read"]
               /\ UNCHANGED cc_exit
       ELSE /\ cc_exit' = [cc_exit EXCEPT ![p] = 1]
            /\ cc_pc' = [cc_pc EXCEPT ![p] = "done"]
            /\ UNCHANGED rc_file
    /\ UNCHANGED <<old_backups, backups, dir_writable, interactive, rc_pc, rc_config,
                   rc_warnings, rc_exit, rc_file_before, backups_before>>
    /\ UNCHANGED <<cc_field, cc_value, cc_config, ccOther>>

\* line 1723, read_config: the document on disk at this moment is loaded
\* into the invocation's own mapping
CcRead(p) ==
    /\ cc_pc[p] = "read"
    /\ rc_file.kind = "json"
    /\ cc_config' = [cc_config EXCEPT ![p] = rc_file.doc]
    /\ cc_pc' = [cc_pc EXCEPT ![p] = "write"]
    /\ UNCHANGED <<rcVars, cc_field, cc_value, cc_exit, ccOther>>

\* lines 1724-1726: the field is set in the mapping that was read and the
\* whole mapping replaces the file, whatever the file holds by now
CcWrite(p) ==
    /\ cc_pc[p] = "write"
    /\ IF dir_writable
          THEN /\ rc_file' = ReplaceConfig(SetField(cc_config[p], cc_field[p],
                                                    cc_value[p]))
               /\ cc_exit' = [cc_exit EXCEPT ![p] = 0]
          ELSE /\ cc_exit' = [cc_exit EXCEPT ![p] = 1]
               /\ UNCHANGED rc_file
    /\ cc_pc' = [cc_pc EXCEPT ![p] = "done"]
    /\ UNCHANGED <<old_backups, backups, dir_writable, interactive, rc_pc, rc_config,
                   rc_warnings, rc_exit, rc_file_before, backups_before>>
    /\ UNCHANGED <<cc_field, cc_value, cc_config, ccOther>>

(***************************************************************************)
(* copy_screenshots, one screenshot at a time: stat, validate_image_file   *)
(* and shutil.copy each open the screenshot by its path.  Between any two  *)
(* of them another process may put another file, a symlink or nothing at   *)
(* that path.                                                              *)
(***************************************************************************)
\* the files the concurrent actor puts in place during one call
MaxReplacements == 1

\* what a path leads to once symlinks are followed, as stat, Image.open and
\* shutil.copy see it
SourceFile(link, image, bytes, size) ==
    [present |-> TRUE, link |-> link, image |-> image, bytes |-> bytes,
     size |-> size]
Gone == [present |-> FALSE, link |-> FALSE, image |-> FALSE, bytes |-> "",
         size |-> 0]
ScreenshotA == SourceFile(FALSE, TRUE, "image A", 1)
ScreenshotB == SourceFile(FALSE, TRUE, "image B", 2)
Script == SourceFile(FALSE, FALSE, "script", 1)
LinkToKey == SourceFile(TRUE, FALSE, "private key", 1)
LinkToImage == SourceFile(TRUE, TRUE, "image C", 1)
ReplacementFiles ==
    {ScreenshotA, ScreenshotB, Script, LinkToKey, LinkToImage, Gone}

\* validate_image_file(screenshot, max_size_bytes=per_file_limit,
\* file_size=stat_result.st_size) on what the path leads to now
CrValidateImageFile(file, per_file_limit, size_value) ==
    IF size_value > (IF per_file_limit = None THEN MAX_IMAGE_FILE_SIZE_BYTES
                     ELSE per_file_limit)
       THEN "ValueError"
    ELSE IF ~file.present \/ ~file.image THEN "ValueError"
    ELSE "True"

\* lines 1186-1195: screenshot.stat(); on OSError a warning and `continue`
CrStat ==
    /\ cr_pc = "stat"
    /\ cr_i <= Len(cr_files)
    /\ IF cr_files[cr_i].present
          THEN /\ cr_st_size' = cr_files[cr_i].size
               /\ cr_pc' = "validate"
               /\ UNCHANGED <<cr_warned, cr_i>>
          ELSE /\ cr_warned' = cr_warned \cup {cr_i}
               /\ cr_i' = cr_i + 1
               /\ UNCHANGED <<cr_st_size, cr_pc>>
    /\ UNCHANGED <<cr_files, cr_max_file_size, cr_max_total_size, cr_validated,
                   cr_total_size, cr_copied, cr_result, cr_replacements, crOther>>

\* lines 1198-1221: validate_image_file and the total size limit
CrValidate ==
    /\ cr_pc = "validate"
    /\ IF CrValidateImageFile(cr_files[cr_i], cr_max_file_size, cr_st_size)
             = "ValueError"
          THEN /\ cr_warned' = cr_warned \cup {cr_i}
               /\ cr_i' = cr_i + 1
               /\ cr_pc' = "stat"
               /\ UNCHANGED <<cr_validated, cr_total_size, cr_result>>
          ELSE /\ cr_validated' = [cr_validated EXCEPT ![cr_i] = cr_files[cr_i].bytes]
               /\ cr_total_size' = cr_total_size + cr_st_size
               /\ IF ExceedsLimit(cr_total_size + cr_st_size, cr_max_total_size)
                     THEN cr_pc' = "done" /\ cr_result' = "returned"
                  ELSE cr_pc' = "copy" /\ UNCHANGED cr_result
               /\ UNCHANGED <<cr_warned, cr_i>>
    /\ UNCHANGED <<cr_files, cr_max_file_size, cr_max_total_size, cr_st_size,
                   cr_copied, cr_replacements, crOther>>

\* lines 1223-1234: shutil.copy(screenshot, new_screenshot_path) copies what
\* the path leads to now; an OSError is raised as ValueError
CrCopy ==
    /\ cr_pc = "copy"
    /\ \/ /\ cr_files[cr_i].present
          /\ cr_copied' = Append(cr_copied, [source |-> cr_i,
                                             bytes |-> cr_files[cr_i].bytes])
          /\ cr_i' = cr_i + 1
          /\ cr_pc' = "stat"
          /\ UNCHANGED cr_result
       \/ /\ cr_pc' = "done"
          /\ cr_result' = "ValueError"
          /\ UNCHANGED <<cr_copied, cr_i>>
    /\ UNCHANGED <<cr_files, cr_max_file_size, cr_max_total_size, cr_st_size,
                   cr_validated, cr_warned, cr_total_size, cr_replacements,
                   crOther>>

\* line 1236: return copied_screenshots
CrReturn ==
    /\ cr_pc = "stat"
    /\ cr_i > Len(cr_files)
    /\ cr_pc' = "done"
    /\ cr_result' = "returned"
    /\ UNCHANGED <<cr_files, cr_max_file_size, cr_max_total_size, cr_i, cr_st_size,
                   cr_validated, cr_warned, cr_total_size, cr_copied,
                   cr_replacements, crOther>>

\* another process replaces what is at the path of one screenshot
CrReplace ==
    /\ cr_pc \notin {"idle", "done"}
    /\ cr_replacements < MaxReplacements
    /\ \E j \in 1..Len(cr_files), file \in ReplacementFiles :
          /\ file # cr_files[j]
          /\ cr_files' = [cr_files EXCEPT ![j] = file]
    /\ cr_replacements' = cr_replacements + 1
    /\ UNCHANGED <<cr_max_file_size, cr_max_total_size, cr_pc, cr_i, cr_st_size,
                   cr_validated, cr_warned, cr_total_size, cr_copied, cr_result,
                   crOther>>

(***************************************************************************)
(* write_config_safely, one system call at a time, beside another process  *)
(* that can rename and create entries in the config directory.  Three      *)
(* files matter: the config file, the temporary file of atomic_write_json  *)
(* and a file elsewhere that a symlink put at the config path leads to.    *)
(***************************************************************************)
\* the changes the concurrent actor makes to the config path during one call
MaxConfigSwaps == 1

WsFiles == {"config", "temp", "other"}

\* the file a call that follows symlinks reaches through the config path
WsReached ==
    CASE ws_path = "file" -> "config"
      [] ws_path = "link" -> "other"
      [] ws_path = "new" -> "temp"
      [] OTHER -> "nothing"

WsRaise(exception) ==
    /\ ws_pc' = "done"
    /\ ws_result' = exception

\* lines 355-356: config_file_path.is_symlink()
WsIsSymlink ==
    /\ ws_pc = "symcheck"
    /\ IF ws_path \in {"link", "dangling"}
          THEN WsRaise("SecurityError")
          ELSE ws_pc' = "exists" /\ UNCHANGED ws_result
    /\ UNCHANGED <<ws_path, ws_mode, ws_content, ws_before, ws_data, ws_warnings,
                   ws_swaps, wsOther>>

\* line 358: config_file_path.exists() follows a symlink
WsExists ==
    /\ ws_pc = "exists"
    /\ ws_pc' = IF WsReached # "nothing" THEN "stat" ELSE "temp"
    /\ UNCHANGED <<ws_path, ws_mode, ws_content, ws_before, ws_data, ws_warnings,
                   ws_result, ws_swaps, wsOther>>

\* lines 359-365: config_file_path.stat() follows a symlink; without a file
\* it raises FileNotFoundError
WsStat ==
    /\ ws_pc = "stat"
    /\ IF WsReached = "nothing"
          THEN WsRaise("FileNotFoundError") /\ UNCHANGED ws_warnings
       ELSE IF ws_mode[WsReached] # CONFIG_FILE_PERMISSIONS
          THEN /\ ws_warnings' = ws_warnings \cup {"PermissionsTooOpen"}
               /\ ws_pc' = "chmod"
               /\ UNCHANGED ws_result
       ELSE /\ ws_pc' = "temp"
            /\ UNCHANGED <<ws_warnings, ws_result>>
    /\ UNCHANGED <<ws_path, ws_mode, ws_content, ws_before, ws_data, ws_swaps,
                   wsOther>>

\* lines 366-376: config_file_path.chmod(CONFIG_FILE_PERMISSIONS) follows a
\* symlink; an OSError is only warned about
WsChmod ==
    /\ ws_pc = "chmod"
    /\ \/ /\ WsReached # "nothing"
          /\ ws_mode' = [ws_mode EXCEPT ![WsReached] = CONFIG_FILE_PERMISSIONS]
          /\ UNCHANGED ws_warnings
       \/ /\ ws_warnings' = ws_warnings \cup {"CouldNotFix"}
          /\ UNCHANGED ws_mode
    /\ ws_pc' = "temp"
    /\ UNCHANGED <<ws_path, ws_content, ws_before, ws_data, ws_result, ws_swaps,
                   wsOther>>

\* atomic_write_json, lines 296-307: mkstemp in the config directory, the
\* document written and synced, the temporary file's permissions set
WsTemp ==
    /\ ws_pc = "temp"
    /\ \/ /\ ws_content' = [ws_content EXCEPT !["temp"] = JsonFile(ws_data)]
          /\ ws_mode' = [ws_mode EXCEPT !["temp"] = CONFIG_FILE_PERMISSIONS]
          /\ ws_pc' = "replace"
          /\ UNCHANGED ws_result
       \/ /\ WsRaise("OSError")
          /\ UNCHANGED <<ws_content, ws_mode>>
    /\ UNCHANGED <<ws_path, ws_before, ws_data, ws_warnings, ws_swaps, wsOther>>

\* atomic_write_json, lines 309-335: os.replace puts the temporary file at
\* the config path in the place of whatever is there, a symlink included;
\* on failure the temporary file is removed; the directory fsync only warns
WsReplace ==
    /\ ws_pc = "replace"
    /\ \/ /\ ws_path' = "new"
          /\ ws_pc' = "done"
          /\ ws_result' = "returned"
          /\ UNCHANGED <<ws_content, ws_mode>>
       \/ /\ WsRaise("OSError")
          /\ ws_content' = [ws_content EXCEPT !["temp"] = AbsentFile]
          /\ ws_mode' = [ws_mode EXCEPT !["temp"] = 0]
          /\ UNCHANGED ws_path
    /\ UNCHANGED <<ws_before, ws_data, ws_warnings, ws_swaps, wsOther>>

\* another process puts a symlink or nothing at the config path
WsSwap ==
    /\ ws_pc \notin {"idle", "done"}
    /\ ws_swaps < MaxConfigSwaps
    /\ \E entry \in {"link", "dangling", "absent"} :
          /\ entry # ws_path
          /\ ws_path' = entry
    /\ ws_swaps' = ws_swaps + 1
    /\ UNCHANGED <<ws_mode, ws_content, ws_before, ws_data, ws_pc, ws_warnings,
                   ws_result, wsOther>>

(***************************************************************************)
(* Initial states and specifications, one per component.                   *)
(***************************************************************************)
RpIdle ==
    /\ check_symlink = TRUE
    /\ rp_pc = "idle"
    /\ rp_cur = 0
    /\ rp_result = "none"

FsIdle ==
    /\ fs = [i \in 1..MaxDepth |-> AbsentEnt]
    /\ path_len = 1

MdIdle ==
    /\ md_mode = 493
    /\ md_harden = TRUE
    /\ umask = 18
    /\ md_pc = "idle"
    /\ md_idx = 1
    /\ md_pidx = 1
    /\ md_stat = AbsentEnt
    /\ md_created = {}
    /\ md_warnings = {}
    /\ md_result = "none"

\* the filesystems of a path of n components: nothing is modelled beneath it
PathFilesystems(entries, n) ==
    {f \in [1..MaxDepth -> entries] :
        WellFormed(f) /\ \A i \in 1..MaxDepth : i > n => f[i] = AbsentEnt}

AwIdle ==
    /\ old_exists = FALSE
    /\ old_doc = [auto_stage_enabled |-> FALSE, default_output_format |-> "markdown",
                  default_convert_to |-> PyNone]
    /\ new_doc = old_doc
    /\ cdir = [target |-> 0, tmp |-> 0]
    /\ cdata = << <<>>, <<>> >>
    /\ ddir = cdir
    /\ ddata = cdata
    /\ imode = <<CONFIG_FILE_PERMISSIONS, CONFIG_FILE_PERMISSIONS>>
    /\ aw_pc = "idle"
    /\ aw_err = "none"
    /\ aw_failed = "none"
    /\ aw_unlink_failed = FALSE
    /\ aw_warned = <<>>
    /\ aw_result = "none"
    /\ aw_crash = "no"
    /\ reader_saw = [found |-> FALSE, text |-> <<>>]

VfIdle ==
    /\ vf_file = [present |-> FALSE, st_size |-> 0, bytes |-> <<>>, width |-> 0,
                  height |-> 0, body |-> "ok", payload |-> <<>>, ext |-> ".png"]
    /\ max_size_bytes = None
    /\ file_size = None
    /\ vf_pc = "idle"
    /\ img_format = "none"
    /\ vf_result = "none"

SlIdle ==
    /\ sl_config = <<>>
    /\ sl_pc = "idle"
    /\ sl_result = [status |-> "none", file_limit_bytes |-> None,
                    total_limit_bytes |-> None]

WcIdle ==
    /\ wc_link = "none"
    /\ wc_pc = "idle"
    /\ wc_warnings = {}
    /\ wc_result = "none"

McIdle ==
    /\ md_call = 1
    /\ md_fs_before = [i \in 1..MaxDepth |-> AbsentEnt]

SeIdle ==
    /\ se_message = <<>>
    /\ se_paths = <<>>
    /\ show_basename = TRUE
    /\ se_pc = "idle"
    /\ se_result = <<>>

FeIdle ==
    /\ allow_symlinks = FALSE
    /\ fe_pc = "idle"
    /\ fe_log = {}
    /\ destination_files = 0
    /\ fe_exit_at = "none"
    /\ exit_code = None

RcIdle ==
    /\ rc_file = AbsentFile
    /\ old_backups = {}
    /\ backups = NoBackups
    /\ dir_writable = TRUE
    /\ interactive = FALSE
    /\ rc_pc = "idle"
    /\ rc_config = None
    /\ rc_warnings = {}
    /\ rc_exit = None
    /\ rc_file_before = AbsentFile
    /\ backups_before = {}

StIdle ==
    /\ st_setter = "none"
    /\ st_arg = PyNone
    /\ st_resolves = "returned"
    /\ st_field = "none"
    /\ st_value = PyNone
    /\ st_pc = "idle"
    /\ st_error = "none"

BfIdle ==
    /\ image_path_given = TRUE
    /\ image_result = "True"
    /\ source_entries = <<>>
    /\ count = 1
    /\ max_total_size_bytes = None
    /\ bf_i = 1
    /\ file_stats = <<>>
    /\ screenshots = <<>>
    /\ gs_skipped = {}
    /\ cs_unreadable = {}
    /\ cs_skipped = {}
    /\ total_size = 0
    /\ limit_reached = FALSE
    /\ copied_screenshots = <<>>

RaIdle ==
    /\ swaps = 0
    /\ replaced = {}
    /\ raced = {}

CcIdle ==
    /\ cc_pc = [p \in Procs |-> "idle"]
    /\ cc_field = [p \in Procs |-> "none"]
    /\ cc_value = [p \in Procs |-> PyNone]
    /\ cc_config = [p \in Procs |-> None]
    /\ cc_exit = [p \in Procs |-> None]

CrIdle ==
    /\ cr_files = <<>>
    /\ cr_max_file_size = None
    /\ cr_max_total_size = None
    /\ cr_pc = "idle"
    /\ cr_i = 1
    /\ cr_st_size = 0
    /\ cr_validated = <<>>
    /\ cr_warned = {}
    /\ cr_total_size = 0
    /\ cr_copied = <<>>
    /\ cr_result = "none"
    /\ cr_replacements = 0

WsIdle ==
    /\ ws_path = "absent"
    /\ ws_mode = <<>>
    /\ ws_content = <<>>
    /\ ws_before = <<>>
    /\ ws_data = None
    /\ ws_pc = "idle"
    /\ ws_warnings = {}
    /\ ws_result = "none"
    /\ ws_swaps = 0

InitResolve ==
    /\ path_len \in 1..MaxDepth
    /\ fs \in PathFilesystems(PlainEntries, path_len)
    /\ check_symlink \in BOOLEAN
    /\ rp_pc = "start"
    /\ rp_cur = 0
    /\ rp_result = "none"
    /\ MdIdle /\ AwIdle /\ VfIdle /\ SlIdle /\ WcIdle /\ McIdle /\ SeIdle
    /\ FeIdle /\ RcIdle /\ StIdle
    /\ BfIdle
    /\ RaIdle
    /\ CcIdle
    /\ CrIdle
    /\ WsIdle

NextResolve == RpLeafCheck \/ RpWalk \/ RpResolve

SpecResolve == InitResolve /\ [][NextResolve]_vars

\* the modes the callers ask for: 0o700 (the config directory), 0o755
RequestedModes == {CONFIG_DIR_PERMISSIONS, 493}
\* 0o022 and 0o002
Umasks == {18, 2}

InitMkdir ==
    /\ path_len \in 1..MaxDepth
    /\ fs \in PathFilesystems(Entries, path_len)
    /\ md_mode \in RequestedModes
    /\ md_harden \in BOOLEAN
    /\ umask \in Umasks
    /\ md_pc = "pre"
    /\ md_idx = 1
    /\ md_pidx = 1
    /\ md_stat = AbsentEnt
    /\ md_created = {}
    /\ md_warnings = {}
    /\ md_result = "none"
    /\ RpIdle /\ AwIdle /\ VfIdle /\ SlIdle /\ WcIdle /\ SeIdle /\ FeIdle
    /\ RcIdle /\ StIdle
    /\ BfIdle
    /\ RaIdle
    /\ CcIdle
    /\ CrIdle
    /\ WsIdle
    /\ md_call = 1
    /\ md_fs_before = fs

NextMkdir ==
    \/ MdPreLstat
    \/ MdMkdir
    \/ MdPostLstat
    \/ MdParentCheck
    \/ MdChecks
    \/ MdPreChmodLstat
    \/ MdChmod
    \/ MdCallAgain

SpecMkdir == InitMkdir /\ [][NextMkdir]_vars

\* 0o600 and 0o644: the permission bits of the previous file
OldFileModes == {CONFIG_FILE_PERMISSIONS, 420}

\* the previous generation, when there is one, was written long ago: it is
\* on stable storage
InitWrite ==
    /\ old_exists \in BOOLEAN
    /\ old_doc \in Docs
    /\ new_doc \in Docs
    /\ cdir = [target |-> IF old_exists THEN OldInode ELSE 0, tmp |-> 0]
    /\ cdata = << IF old_exists THEN Serialize(old_doc) ELSE <<>>, <<>> >>
    /\ ddir = cdir
    /\ ddata = cdata
    /\ \E m \in OldFileModes : imode = <<m, CONFIG_FILE_PERMISSIONS>>
    /\ aw_pc = "mkstemp"
    /\ aw_err = "none"
    /\ aw_failed = "none"
    /\ aw_unlink_failed = FALSE
    /\ aw_warned = <<>>
    /\ aw_result = "none"
    /\ aw_crash = "no"
    /\ reader_saw = [found |-> FALSE, text |-> <<>>]
    /\ FsIdle /\ RpIdle /\ MdIdle /\ VfIdle /\ SlIdle /\ WcIdle /\ McIdle
    /\ SeIdle /\ FeIdle /\ RcIdle /\ StIdle
    /\ BfIdle
    /\ RaIdle
    /\ CcIdle
    /\ CrIdle
    /\ WsIdle

NextWrite ==
    \/ AwMkstemp
    \/ AwDump
    \/ AwFsync
    \/ AwChmod
    \/ AwReplace
    \/ AwCleanup
    \/ AwDirFsync
    \/ WriteBackData
    \/ WriteBackDir
    \/ Kill
    \/ PowerLoss
    \/ ReadTarget

SpecWrite == InitWrite /\ [][NextWrite]_vars

\* the longest payload appended to a file
MaxPayload == 2

ImageFormats == {"PNG", "JPEG", "GIF", "BMP"}
Magic(fmt) ==
    CASE fmt = "PNG" -> PNG_MAGIC
      [] fmt = "JPEG" -> JPEG_MAGIC
      [] fmt = "GIF" -> GIF_MAGIC
      [] fmt = "BMP" -> BMP_MAGIC
\* the bytes a well-formed file of the format ends with; BMP has none
Trailer(fmt) ==
    CASE fmt = "PNG" -> PNG_TRAILER
      [] fmt = "JPEG" -> JPEG_TRAILER
      [] fmt = "GIF" -> GIF_TRAILER
      [] fmt = "BMP" -> <<>>
\* a usual screenshot, the largest image allowed, the smallest one refused,
\* and one beyond twice Pillow's limit
Dimensions ==
    {<<1920, 1080>>, <<MAX_IMAGE_PIXELS, 1>>, <<MAX_IMAGE_PIXELS + 1, 1>>,
     <<20000, 10000>>}
Bodies == {"ok", "truncated", "badcrc"}
\* ';', 0xD9 and 0xFF: the bytes the short trailers are made of
PayloadBytes == {59, 217, 255}
Payloads == UNION {[1..n -> PayloadBytes] : n \in 0..MaxPayload}
Extensions == {".png", ".txt"}
\* 1 KiB, the ceiling, one byte more, 60 MiB
FileSizes ==
    {1024, HARD_MAX_FILE_SIZE_BYTES, HARD_MAX_FILE_SIZE_BYTES + 1, 60 * MiB}
MaxSizeArgs == {None, 100 * MiB}
FileSizeArgs == {None, 1024, HARD_MAX_FILE_SIZE_BYTES + 1}

ImageFile(fmt, dim, body, payload) ==
    [bytes |-> Magic(fmt) \o (IF body = "truncated" THEN <<>> ELSE Trailer(fmt))
                   \o payload,
     width |-> dim[1], height |-> dim[2], body |-> body, payload |-> payload]
\* a shell script ("#!/") and an ELF executable
OtherFile(bytes) ==
    [bytes |-> bytes, width |-> 0, height |-> 0, body |-> "ok", payload |-> <<>>]
FileContents ==
    {ImageFile(fmt, dim, body, payload) :
        fmt \in ImageFormats, dim \in Dimensions, body \in Bodies,
        payload \in Payloads}
    \cup {OtherFile(<<35, 33, 47>>), OtherFile(<<127, 69, 76, 70>>)}

InitValidate ==
    /\ \E content \in FileContents, present \in BOOLEAN, size \in FileSizes,
          ext \in Extensions :
          vf_file = [present |-> present, st_size |-> size, ext |-> ext,
                     bytes |-> content.bytes, width |-> content.width,
                     height |-> content.height, body |-> content.body,
                     payload |-> content.payload]
    /\ max_size_bytes \in MaxSizeArgs
    /\ file_size \in FileSizeArgs
    /\ vf_pc = "size"
    /\ img_format = "none"
    /\ vf_result = "none"
    /\ FsIdle /\ RpIdle /\ MdIdle /\ AwIdle /\ SlIdle /\ WcIdle /\ McIdle
    /\ SeIdle /\ FeIdle /\ RcIdle /\ StIdle
    /\ BfIdle
    /\ RaIdle
    /\ CcIdle
    /\ CrIdle
    /\ WsIdle

NextValidate == VfSizeCheck \/ VfOpen \/ VfVerify \/ VfDims \/ VfTrailer

SpecValidate == InitValidate /\ [][NextValidate]_vars

ConfigKeys == {"max_file_size_mb", "max_total_size_mb"}
ConfigInts == {0 - 1, 0, 1, 10, 50, 51, 200, 201, 999999}
\* 25.5, 100.5, 2^-21, -0.5 and 0.0
ConfigFloats ==
    {FloatValue(51, 2), FloatValue(201, 2), FloatValue(1, 2 * MiB),
     FloatValue(0 - 1, 2), FloatValue(0, 1)}
ConfigValues ==
    {NoneValue, StrValue, InfValue, NegInfValue, NanValue}
    \cup {BoolValue(b) : b \in BOOLEAN}
    \cup {IntValue(n) : n \in ConfigInts}
    \cup ConfigFloats
Configs == UNION {[keys -> ConfigValues] : keys \in SUBSET ConfigKeys}

InitLimits ==
    /\ sl_config \in Configs
    /\ sl_pc = "call"
    /\ sl_result = [status |-> "none", file_limit_bytes |-> None,
                    total_limit_bytes |-> None]
    /\ FsIdle /\ RpIdle /\ MdIdle /\ AwIdle /\ VfIdle /\ WcIdle /\ McIdle
    /\ SeIdle /\ FeIdle /\ RcIdle /\ StIdle
    /\ BfIdle
    /\ RaIdle
    /\ CcIdle
    /\ CrIdle
    /\ WsIdle

NextLimits == SlGetSizeLimits

SpecLimits == InitLimits /\ [][NextLimits]_vars

\* a config path that is a valid link leads to a file, one that is a
\* dangling link leads to nothing
InitWriteConfig ==
    /\ wc_link \in {"none", "valid", "dangling"}
    /\ old_exists \in BOOLEAN
    /\ wc_link = "valid" => old_exists
    /\ wc_link = "dangling" => ~old_exists
    /\ old_doc \in Docs
    /\ new_doc \in Docs
    /\ cdir = [target |-> IF old_exists THEN OldInode ELSE 0, tmp |-> 0]
    /\ cdata = << IF old_exists THEN Serialize(old_doc) ELSE <<>>, <<>> >>
    /\ ddir = cdir
    /\ ddata = cdata
    /\ \E m \in OldFileModes : imode = <<m, CONFIG_FILE_PERMISSIONS>>
    /\ aw_pc = "idle"
    /\ aw_err = "none"
    /\ aw_failed = "none"
    /\ aw_unlink_failed = FALSE
    /\ aw_warned = <<>>
    /\ aw_result = "none"
    /\ aw_crash = "no"
    /\ reader_saw = [found |-> FALSE, text |-> <<>>]
    /\ wc_pc = "symcheck"
    /\ wc_warnings = {}
    /\ wc_result = "none"
    /\ FsIdle /\ RpIdle /\ MdIdle /\ VfIdle /\ SlIdle /\ McIdle /\ SeIdle
    /\ FeIdle /\ RcIdle /\ StIdle
    /\ BfIdle
    /\ RaIdle
    /\ CcIdle
    /\ CrIdle
    /\ WsIdle

NextWriteConfig ==
    \/ WcSymlinkCheck
    \/ WcPerms
    \/ WcWrite
    \/ WcReturn
    \/ AwMkstemp
    \/ AwDump
    \/ AwFsync
    \/ AwChmod
    \/ AwReplace
    \/ AwCleanup
    \/ AwDirFsync

SpecWriteConfig == InitWriteConfig /\ [][NextWriteConfig]_vars

\* the longest message, in parts: a part is a word or a path
MaxParts == 2

\* a home directory, a directory under it, and files in them
SensitivePaths ==
    {PathStr(<<"home", "alice">>),
     PathStr(<<"home", "alice", "key.txt">>),
     PathStr(<<"home", "alice", "shots">>),
     PathStr(<<"home", "alice", "shots", "a.png">>)}

MessageWords == {<<"Permission denied:">>, <<"->">>}
MessageParts == MessageWords \cup SensitivePaths

RECURSIVE Join(_)
Join(parts) ==
    IF parts = <<>> THEN <<>>
    ELSE parts[1] \o Join(SubSeq(parts, 2, Len(parts)))

Messages == {Join(parts) : parts \in UNION {[1..n -> MessageParts] : n \in 1..MaxParts}}

\* one path, or two different ones
PathTuples ==
    {<<p>> : p \in SensitivePaths}
    \cup {pq \in SensitivePaths \X SensitivePaths : pq[1] # pq[2]}

InitSanitize ==
    /\ se_message \in Messages
    /\ se_paths \in PathTuples
    /\ show_basename \in BOOLEAN
    /\ se_pc = "call"
    /\ se_result = <<>>
    /\ FsIdle /\ RpIdle /\ MdIdle /\ AwIdle /\ VfIdle /\ SlIdle /\ WcIdle
    /\ McIdle /\ FeIdle /\ RcIdle /\ StIdle
    /\ BfIdle
    /\ RaIdle
    /\ CcIdle
    /\ CrIdle
    /\ WsIdle

NextSanitize == SeSanitize

SpecSanitize == InitSanitize /\ [][NextSanitize]_vars

MaxEntries == 3

\* what validate_image_file does with a file: it returns True, raises
\* ValueError, or lets the SyntaxError of img.verify() through (ImageVerify)
ValidationResults == {"True", "ValueError", "SyntaxError"}

\* the entries of a source directory: images of several ages and sizes, a
\* file that is no image, a PNG with a bad checksum, an image that is
\* damaged after the scan, a symlink to an image elsewhere, a dangling
\* symlink, a file with another extension, a directory with an image's name
Image(mtime, size) ==
    [kind |-> "file", ext |-> TRUE, st_mtime |-> mtime, st_size |-> size,
     valid |-> "True", still_valid |-> "True"]
SourceEntries ==
    {Image(1, 1), Image(2, 2), Image(2, 1),
     [Image(3, 1) EXCEPT !.valid = "ValueError", !.still_valid = "ValueError"],
     [Image(3, 1) EXCEPT !.valid = "SyntaxError", !.still_valid = "SyntaxError"],
     [Image(3, 1) EXCEPT !.still_valid = "ValueError"],
     [Image(3, 1) EXCEPT !.kind = "symlink"],
     [Image(3, 1) EXCEPT !.kind = "broken"],
     [Image(3, 1) EXCEPT !.ext = FALSE],
     [Image(3, 1) EXCEPT !.kind = "dir"]}
SourceDirectories == UNION {[1..n -> SourceEntries] : n \in 0..MaxEntries}
TotalLimits == {None, 2, 3}

InitFetch ==
    /\ path_len \in 1..MaxDepth
    /\ fs \in PathFilesystems(PlainEntries, path_len)
    /\ allow_symlinks \in BOOLEAN
    /\ fe_pc = "source"
    /\ fe_log = {}
    /\ destination_files = 0
    /\ fe_exit_at = "none"
    /\ exit_code = None
    /\ RpIdle /\ MdIdle /\ AwIdle /\ VfIdle /\ SlIdle /\ WcIdle /\ McIdle
    /\ SeIdle /\ RcIdle /\ StIdle
    /\ RaIdle
    /\ CcIdle
    /\ CrIdle
    /\ WsIdle
    /\ image_result \in ValidationResults
    /\ \/ /\ image_path_given = TRUE
          /\ source_entries = <<>>
          /\ count = 1
          /\ max_total_size_bytes = None
       \/ /\ image_path_given = FALSE
          /\ image_result = "True"
          /\ path_len = 1
          /\ fs = [i \in 1..MaxDepth |-> AbsentEnt]
          /\ source_entries \in SourceDirectories
          /\ count \in 1..2
          /\ max_total_size_bytes \in TotalLimits
    /\ bf_i = 1
    /\ file_stats = <<>>
    /\ screenshots = <<>>
    /\ gs_skipped = {}
    /\ cs_unreadable = {}
    /\ cs_skipped = {}
    /\ total_size = 0
    /\ limit_reached = FALSE
    /\ copied_screenshots = <<>>

NextFetch ==
    \/ FeSource
    \/ FeDestination
    \/ FeOutputFormat
    \/ FeResolveImage
    \/ RpLeafCheck
    \/ RpWalk
    \/ RpResolve
    \/ FeImageResolved
    \/ FeValidate
    \/ FeCopy
    \/ FeScanStart
    \/ GsScanEntry
    \/ GsSelect
    \/ CsCopyEntry
    \/ CsReturn

SpecFetch == InitFetch /\ [][NextFetch]_vars

MaxBackups == 2

\* what json.load finds in a field of a hand-edited or older config file:
\* values of the field's type and values of another type
FieldValues(field) ==
    CASE field = "default_source" -> {PyStr("/mnt/c/shots")}
      [] field = "default_destination" -> {PyStr("")}
      [] field = "auto_stage_enabled" -> {PyBool(TRUE), PyStr("maybe")}
      [] field = "default_output_format" -> {PyStr("html"), PyInt(12345)}
      [] field = "default_convert_to" -> {PyNone, PyStr("png"), PyInt(7)}
      [] field = "max_file_size_mb" -> {PyInt(10), PyBool(TRUE)}
      [] field = "max_total_size_mb" -> {PyInt(200)}

\* the documents: every field is missing or has one of its values
FieldOrder ==
    <<"default_source", "default_destination", "auto_stage_enabled",
      "default_output_format", "default_convert_to", "max_file_size_mb",
      "max_total_size_mb">>
Missing == [type |-> "missing"]
FieldChoices(i) == FieldValues(FieldOrder[i]) \cup {Missing}
DocOf(choice) ==
    [field \in {FieldOrder[i] : i \in {j \in 1..Len(FieldOrder) : choice[j] # Missing}}
        |-> choice[CHOOSE i \in 1..Len(FieldOrder) : FieldOrder[i] = field]]
ConfigDocs ==
    {DocOf(choice) :
        choice \in FieldChoices(1) \X FieldChoices(2) \X FieldChoices(3)
                      \X FieldChoices(4) \X FieldChoices(5) \X FieldChoices(6)
                      \X FieldChoices(7)}

\* the empty file and a file cut short
CorruptedTexts == {"", "{\"default_source\": "}

\* the backups of earlier runs: a few of the first names, or every name
BackupIndexSets ==
    (SUBSET (0..(MaxBackups - 1))) \cup {0..(BACKUP_INDEX_END - 1)}

InitReadConfig ==
    /\ rc_file \in {JsonFile(doc) : doc \in ConfigDocs}
                       \cup {TextFile(text) : text \in CorruptedTexts}
    /\ old_backups \in BackupIndexSets
    /\ backups = NoBackups
    /\ dir_writable \in BOOLEAN
    /\ interactive \in BOOLEAN
    /\ rc_pc = "load"
    /\ rc_config = None
    /\ rc_warnings = {}
    /\ rc_exit = None
    /\ rc_file_before = rc_file
    /\ backups_before = old_backups
    /\ FsIdle /\ RpIdle /\ MdIdle /\ AwIdle /\ VfIdle /\ SlIdle /\ WcIdle
    /\ McIdle /\ SeIdle /\ StIdle
    /\ FeIdle
    /\ BfIdle
    /\ RaIdle
    /\ CcIdle
    /\ CrIdle
    /\ WsIdle

NextReadConfig == RcLoad \/ RcBackup \/ RcPrompt \/ RcReset

SpecReadConfig == InitReadConfig /\ [][NextReadConfig]_vars

\* what resolve_path_safely does with a directory argument: it returns, or
\* raises one of ValueErrors, or what ResolveStrict raises
ResolveOutcomes ==
    {"returned", "ValueError", "FileNotFoundError", "NotADirectoryError"}

\* the calls of the setters: each setter with arguments it accepts and
\* arguments it refuses
SetterCalls ==
    {<<"update_config_field", "auto_stage_enabled", PyBool(FALSE)>>,
     <<"update_config_field", "auto_stage_enabled", PyStr("yes")>>,
     <<"update_config_field", "max_file_size_mb", PyInt(25)>>,
     <<"update_config_field", "max_file_size_mb", PyBool(TRUE)>>,
     <<"update_config_field", "default_colour", PyStr("red")>>,
     <<"update_config_field", "default_output_format", PyStr("pdf")>>,
     <<"update_config_field", "default_source", PyStr("/mnt/c/new")>>,
     <<"set_default_source", "default_source", PyStr("")>>,
     <<"set_default_source", "default_source", PyStr("/mnt/c/new")>>,
     <<"set_default_destination", "default_destination", PyStr("/home/alice/img")>>,
     <<"set_auto_stage", "auto_stage_enabled", PyBool(TRUE)>>,
     <<"set_default_output_format", "default_output_format", PyStr("HTML")>>,
     <<"set_default_output_format", "default_output_format", PyStr("pdf")>>,
     <<"set_default_convert_to", "default_convert_to", PyStr("PNG")>>,
     <<"set_default_convert_to", "default_convert_to", PyNone>>,
     <<"set_default_convert_to", "default_convert_to", PyStr("bmp")>>}

InitSetter ==
    /\ rc_file \in {JsonFile(doc) : doc \in ConfigDocs}
                       \cup {TextFile(text) : text \in CorruptedTexts}
                       \cup {AbsentFile}
    /\ old_backups \in {{}, {0}}
    /\ backups = NoBackups
    /\ dir_writable \in BOOLEAN
    /\ interactive \in BOOLEAN
    /\ rc_pc = "idle"
    /\ rc_config = None
    /\ rc_warnings = {}
    /\ rc_exit = None
    /\ rc_file_before = rc_file
    /\ backups_before = old_backups
    /\ \E call \in SetterCalls :
          /\ st_setter = call[1]
          /\ st_field = call[2]
          /\ st_arg = call[3]
    /\ st_resolves \in
          IF st_field \in {"default_source", "default_destination"}
             /\ st_arg.value # ""
          THEN ResolveOutcomes ELSE {"returned"}
    /\ st_value = PyNone
    /\ st_pc = "check"
    /\ st_error = "none"
    /\ FsIdle /\ RpIdle /\ MdIdle /\ AwIdle /\ VfIdle /\ SlIdle /\ WcIdle
    /\ McIdle /\ SeIdle
    /\ FeIdle
    /\ BfIdle
    /\ RaIdle
    /\ CcIdle
    /\ CrIdle
    /\ WsIdle

NextSetter ==
    \/ StCheck
    \/ StConfigPath
    \/ StRead
    \/ RcLoad
    \/ RcBackup
    \/ RcPrompt
    \/ RcReset
    \/ StWrite

SpecSetter == InitSetter /\ [][NextSetter]_vars

\* create_directory_safely beside the concurrent actor: one call, the
\* default mode and umask
RaceEntries ==
    {AbsentEnt, DirEnt("me", 493), DirEnt("me", 511), DirEnt("other", 511)}

InitMkdirRace ==
    /\ path_len \in 2..MaxDepth
    /\ fs \in PathFilesystems(RaceEntries, path_len)
    /\ md_mode = 493
    /\ md_harden \in BOOLEAN
    /\ umask = 18
    /\ md_pc = "pre"
    /\ md_idx = 1
    /\ md_pidx = 1
    /\ md_stat = AbsentEnt
    /\ md_created = {}
    /\ md_warnings = {}
    /\ md_result = "none"
    /\ md_call = 1
    /\ md_fs_before = fs
    /\ swaps = 0
    /\ replaced = {}
    /\ raced = {}
    /\ RpIdle /\ AwIdle /\ VfIdle /\ SlIdle /\ WcIdle /\ SeIdle /\ FeIdle
    /\ RcIdle /\ StIdle /\ BfIdle
    /\ CcIdle
    /\ CrIdle
    /\ WsIdle

NextMkdirRace ==
    \/ MdPreLstat
    \/ MdMkdir
    \/ MdPostLstat
    \/ MdParentCheck
    \/ MdChecks
    \/ MdPreChmodLstat
    \/ MdChmod
    \/ RaSwap

SpecMkdirRace == InitMkdirRace /\ [][NextMkdirRace]_vars

\* create_directory_safely with the modes a caller can ask for: 0o700,
\* 0o755 and 0o775
HardenModes == {CONFIG_DIR_PERMISSIONS, 493, 509}

InitHarden ==
    /\ path_len \in 1..MaxDepth
    /\ fs \in PathFilesystems(Entries, path_len)
    /\ md_mode \in HardenModes
    /\ md_harden \in BOOLEAN
    /\ umask \in Umasks
    /\ md_pc = "pre"
    /\ md_idx = 1
    /\ md_pidx = 1
    /\ md_stat = AbsentEnt
    /\ md_created = {}
    /\ md_warnings = {}
    /\ md_result = "none"
    /\ md_call = 1
    /\ md_fs_before = fs
    /\ RpIdle /\ AwIdle /\ VfIdle /\ SlIdle /\ WcIdle /\ SeIdle /\ FeIdle
    /\ RcIdle /\ StIdle /\ BfIdle /\ RaIdle
    /\ CcIdle
    /\ CrIdle
    /\ WsIdle

NextHarden ==
    \/ MdPreLstat
    \/ MdMkdir
    \/ MdPostLstat
    \/ MdParentCheck
    \/ MdChecks
    \/ MdPreChmodLstat
    \/ MdChmod

SpecHarden == InitHarden /\ [][NextHarden]_vars

\* two setters on two different fields; every value is one its normalizer
\* returns and differs from what a config file holds for the field
ConcurrentCalls ==
    {<<"auto_stage_enabled", PyBool(FALSE)>>,
     <<"default_output_format", PyStr("markdown")>>,
     <<"default_convert_to", PyStr("jpg")>>}

InitTwoSetters ==
    /\ rc_file \in {JsonFile(doc) : doc \in ConfigDocs} \cup {AbsentFile}
    /\ old_backups = {}
    /\ backups = NoBackups
    /\ dir_writable \in BOOLEAN
    /\ interactive = FALSE
    /\ rc_pc = "idle"
    /\ rc_config = None
    /\ rc_warnings = {}
    /\ rc_exit = None
    /\ rc_file_before = rc_file
    /\ backups_before = old_backups
    /\ cc_pc = [p \in Procs |-> "path"]
    /\ \E first \in ConcurrentCalls : \E second \in ConcurrentCalls :
          /\ first[1] # second[1]
          /\ cc_field = [p \in Procs |-> IF p = 1 THEN first[1] ELSE second[1]]
          /\ cc_value = [p \in Procs |-> IF p = 1 THEN first[2] ELSE second[2]]
    /\ cc_config = [p \in Procs |-> None]
    /\ cc_exit = [p \in Procs |-> None]
    /\ FsIdle /\ RpIdle /\ MdIdle /\ AwIdle /\ VfIdle /\ SlIdle /\ WcIdle
    /\ McIdle /\ SeIdle
    /\ FeIdle
    /\ StIdle
    /\ BfIdle
    /\ RaIdle
    /\ CrIdle
    /\ WsIdle

NextTwoSetters ==
    \/ \E p \in Procs : CcConfigPath(p)
    \/ \E p \in Procs : CcRead(p)
    \/ \E p \in Procs : CcWrite(p)

SpecTwoSetters == InitTwoSetters /\ [][NextTwoSetters]_vars

\* the screenshots one call is given
MaxScreenshots == 2

\* what the paths lead to when copy_screenshots is called
GivenFiles == {ScreenshotA, ScreenshotB, Script, Gone}

InitCopyRace ==
    /\ \E n \in 1..MaxScreenshots :
          /\ cr_files \in [1..n -> GivenFiles]
          /\ cr_validated = [i \in 1..n |-> "none"]
    /\ cr_max_file_size \in {None, 1}
    /\ cr_max_total_size \in {None, 2}
    /\ cr_pc = "stat"
    /\ cr_i = 1
    /\ cr_st_size = 0
    /\ cr_warned = {}
    /\ cr_total_size = 0
    /\ cr_copied = <<>>
    /\ cr_result = "none"
    /\ cr_replacements = 0
    /\ FsIdle /\ RpIdle /\ MdIdle /\ AwIdle /\ VfIdle /\ SlIdle /\ WcIdle
    /\ McIdle /\ SeIdle
    /\ FeIdle
    /\ RcIdle /\ StIdle
    /\ BfIdle
    /\ RaIdle
    /\ CcIdle
    /\ WsIdle

NextCopyRace ==
    \/ CrStat
    \/ CrValidate
    \/ CrCopy
    \/ CrReturn
    \/ CrReplace

SpecCopyRace == InitCopyRace /\ [][NextCopyRace]_vars

InitConfigSwap ==
    /\ ws_path \in {"file", "absent", "link", "dangling"}
    /\ \E config_mode \in {CONFIG_FILE_PERMISSIONS, 420, 438},
          other_mode \in {CONFIG_FILE_PERMISSIONS, 420, 493} :
          ws_mode = [file \in WsFiles |->
                        CASE file = "config" -> IF ws_path = "file"
                                                  THEN config_mode ELSE 0
                          [] file = "other" -> other_mode
                          [] OTHER -> 0]
    /\ ws_content = [file \in WsFiles |->
                        CASE file = "config" -> IF ws_path = "file"
                                                  THEN JsonFile(DEFAULT_CONFIG)
                                               ELSE AbsentFile
                          [] file = "other" -> TextFile("#!/bin/sh")
                          [] OTHER -> AbsentFile]
    /\ ws_before = [mode |-> ws_mode, content |-> ws_content]
    /\ ws_data \in PromptedConfigs
    /\ ws_pc = "symcheck"
    /\ ws_warnings = {}
    /\ ws_result = "none"
    /\ ws_swaps = 0
    /\ FsIdle /\ RpIdle /\ MdIdle /\ AwIdle /\ VfIdle /\ SlIdle /\ WcIdle
    /\ McIdle /\ SeIdle
    /\ FeIdle
    /\ RcIdle /\ StIdle
    /\ BfIdle
    /\ RaIdle
    /\ CcIdle
    /\ CrIdle

NextConfigSwap ==
    \/ WsIsSymlink
    \/ WsExists
    \/ WsStat
    \/ WsChmod
    \/ WsTemp
    \/ WsReplace
    \/ WsSwap

SpecConfigSwap == InitConfigSwap /\ [][NextConfigSwap]_vars

(***************************************************************************)
(* C1: with check_symlink=True, a path whose final component or any        *)
(* ancestor component is a symbolic link makes resolve_path_safely raise   *)
(* ValueError; it never returns a resolved path.                           *)
(***************************************************************************)
HasSymlinkComponent == \E i \in 1..path_len : Lstat(i).kind = "link"

C1_SymlinkAlwaysRejected ==
    (rp_pc = "done" /\ check_symlink /\ HasSymlinkComponent)
        => rp_result \in ValueErrors

C1_Witness ==
    /\ rp_pc = "done"
    /\ check_symlink
    /\ path_len = MaxDepth
    /\ Lstat(1).kind = "link"
    /\ Lstat(path_len).kind = "dir"
    /\ rp_result = "ValueError:SymlinkInParentChain"

(***************************************************************************)
(* C2: whenever create_directory_safely returns, the target exists and is  *)
(* a real directory, not a symlink, and every component this call created  *)
(* is a directory owned by the calling user.                               *)
(***************************************************************************)
C2_ReturnedDirectoryIsReal ==
    (md_pc = "done" /\ md_result = "returned")
        => /\ Lstat(path_len).kind = "dir"
           /\ \A i \in md_created :
                Lstat(i).kind = "dir" /\ Lstat(i).uid = "me"

C2_Witness ==
    /\ md_pc = "done"
    /\ md_result = "returned"
    /\ path_len = MaxDepth
    /\ Cardinality(md_created) >= 2
    /\ Lstat(path_len).kind = "dir"

(***************************************************************************)
(* C3: config persistence is all-or-nothing.  In every reachable state,    *)
(* after every step of atomic_write_json and after the process is killed   *)
(* or the machine loses power at any step, the target file, when it        *)
(* exists, holds the whole previous document or the whole new document;    *)
(* a concurrent reader never reads anything else.                          *)
(***************************************************************************)
IsGeneration(text) ==
    /\ WellFormedJson(text)
    /\ \/ DecodeJson(text) = new_doc
       \/ old_exists /\ DecodeJson(text) = old_doc

C3_TargetIsAWholeGeneration ==
    /\ cdir.target # 0 => IsGeneration(cdata[cdir.target])
    /\ reader_saw.found => IsGeneration(reader_saw.text)

C3_Witness ==
    /\ aw_crash = "powerloss"
    /\ aw_pc = "dirsync"
    /\ old_exists
    /\ old_doc # new_doc
    /\ cdir.target = TmpInode
    /\ reader_saw.found /\ DecodeJson(reader_saw.text) = old_doc

(***************************************************************************)
(* C4 as claimed: if any step of atomic_write_json up to and including the *)
(* rename fails, the error propagates to the caller, the target still      *)
(* holds the previous generation unchanged, and the temporary file has     *)
(* been removed from the target directory.                                 *)
(***************************************************************************)
StepsUpToRename == {"mkstemp", "dump", "fsync", "chmod", "replace"}

TargetUnchanged ==
    /\ cdir.target = IF old_exists THEN OldInode ELSE 0
    /\ old_exists => cdata[OldInode] = Serialize(old_doc)

C4_FailureRemovesTempFile ==
    (aw_pc = "done" /\ aw_failed \in StepsUpToRename)
        => /\ aw_result \in {"OSError", "TypeError"}
           /\ TargetUnchanged
           /\ cdir.tmp = 0

(***************************************************************************)
(* C4 as amended: if any step of atomic_write_json up to and including the *)
(* rename fails, the error propagates to the caller and the target still   *)
(* holds the previous generation unchanged; the temporary file has been    *)
(* removed unless the cleanup's own os.unlink failed, which is passed over.*)
(***************************************************************************)
C4_FailureCleansUpBestEffort ==
    (aw_pc = "done" /\ aw_failed \in StepsUpToRename)
        => /\ aw_result \in {"OSError", "TypeError"}
           /\ TargetUnchanged
           /\ cdir.tmp = 0 \/ aw_unlink_failed

C4_Witness ==
    /\ aw_pc = "done"
    /\ aw_failed = "replace"
    /\ aw_result = "OSError"
    /\ old_exists
    /\ Len(cdata[TmpInode]) = Len(Serialize(new_doc))
    /\ cdir.tmp = 0
    /\ ~aw_unlink_failed

\* ---- what a file is, independently of how validate_image_file looks at it
Pixels == vf_file.width * vf_file.height

\* the size check lets the file through: stat() worked or was not needed,
\* and the size is within the limit in force
PassesSizeCheck ==
    /\ file_size = None => vf_file.present
    /\ VfSizeValue <= VfMaxSize

\* a complete image in an accepted format, within every limit
OtherwiseValidImage ==
    /\ vf_file.present
    /\ PassesSizeCheck
    /\ PilFormat(vf_file.bytes) \in {"PNG", "JPEG", "GIF"}
    /\ vf_file.body = "ok"
    /\ Pixels <= MAX_IMAGE_PIXELS

(***************************************************************************)
(* C5: an otherwise valid PNG, JPEG or GIF with any bytes appended after   *)
(* its format trailer is rejected by validate_image_file with the          *)
(* trailing-data error, whatever the appended bytes are.                   *)
(***************************************************************************)
C5_AppendedPayloadRejected ==
    (vf_pc = "done" /\ OtherwiseValidImage /\ vf_file.payload # <<>>)
        => vf_result = "ValueError:TrailingData"

\* ---- C6
IsDecodableImage == vf_file.present /\ PilFormat(vf_file.bytes) # "NONE"

(***************************************************************************)
(* C6 as claimed: validate_image_file rejects every image of more than     *)
(* 89,478,485 pixels with the 'Image dimensions too large' error, and      *)
(* rejects no image at or below that ceiling for its pixel count.          *)
(***************************************************************************)
C6_PixelCeilingAlwaysReported ==
    (vf_pc = "done" /\ IsDecodableImage)
        => /\ Pixels > MAX_IMAGE_PIXELS
                => vf_result = "ValueError:DimensionsTooLarge"
           /\ Pixels <= MAX_IMAGE_PIXELS
                => vf_result # "ValueError:DimensionsTooLarge"

(***************************************************************************)
(* C6 as amended: validate_image_file rejects every image that passes the  *)
(* size check and has more than 89,478,485 pixels with the 'Image          *)
(* dimensions too large' error, and rejects no image at or below that      *)
(* ceiling for its pixel count.                                            *)
(***************************************************************************)
C6_PixelCeilingAfterSizeCheck ==
    (vf_pc = "done" /\ IsDecodableImage)
        => /\ (PassesSizeCheck /\ Pixels > MAX_IMAGE_PIXELS)
                => vf_result = "ValueError:DimensionsTooLarge"
           /\ Pixels <= MAX_IMAGE_PIXELS
                => vf_result # "ValueError:DimensionsTooLarge"

C6_Witness ==
    /\ vf_pc = "done"
    /\ vf_file.present
    /\ PilFormat(vf_file.bytes) = "PNG"
    /\ vf_file.st_size = 1024
    /\ file_size = None
    /\ Pixels = MAX_IMAGE_PIXELS + 1
    /\ vf_result = "ValueError:DimensionsTooLarge"

(***************************************************************************)
(* C7 as claimed: validate_image_file returns True only for content that   *)
(* decodes as PNG, JPEG or GIF, whatever the file's extension; content     *)
(* with non-image magic bytes is rejected with the 'not a valid image'     *)
(* error, and a decodable image in any other format with the unsupported-  *)
(* format error.                                                           *)
(***************************************************************************)
C7_ContentDecidesOutcome ==
    vf_pc = "done"
        => /\ vf_result = "True"
                => PilFormat(vf_file.bytes) \in {"PNG", "JPEG", "GIF"}
           /\ (vf_file.present /\ PilFormat(vf_file.bytes) = "NONE")
                => vf_result = "ValueError:NotValidImage"
           /\ (vf_file.present /\ PilFormat(vf_file.bytes) = "BMP")
                => vf_result = "ValueError:Unsupported"

(***************************************************************************)
(* C7 as amended: validate_image_file returns True only for content that   *)
(* decodes as PNG, JPEG or GIF, whatever the file's extension; of the      *)
(* files that pass the size check, content with non-image magic bytes is   *)
(* rejected with the 'not a valid image' error, and a decodable image in   *)
(* any other format, within the pixel ceiling, with the unsupported-format *)
(* error.                                                                  *)
(***************************************************************************)
C7_ContentDecidesOutcomeAfterSizeCheck ==
    vf_pc = "done"
        => /\ vf_result = "True"
                => PilFormat(vf_file.bytes) \in {"PNG", "JPEG", "GIF"}
           /\ (vf_file.present /\ PassesSizeCheck
                   /\ PilFormat(vf_file.bytes) = "NONE")
                => vf_result = "ValueError:NotValidImage"
           /\ (vf_file.present /\ PassesSizeCheck
                   /\ PilFormat(vf_file.bytes) = "BMP"
                   /\ Pixels <= MAX_IMAGE_PIXELS)
                => vf_result = "ValueError:Unsupported"

C7_Witness ==
    /\ vf_pc = "done"
    /\ vf_file.present
    /\ vf_file.ext = ".png"
    /\ PassesSizeCheck
    /\ PilFormat(vf_file.bytes) = "BMP"
    /\ Pixels <= MAX_IMAGE_PIXELS
    /\ vf_result = "ValueError:Unsupported"

(***************************************************************************)
(* C8: for every config mapping, get_size_limits returns a per-file limit  *)
(* of at most 50 MiB and an aggregate limit that is not None and at most   *)
(* 200 MiB.                                                                *)
(***************************************************************************)
C8_LimitsAlwaysClamped ==
    sl_pc = "done"
        => /\ sl_result.status = "returned"
           /\ sl_result.file_limit_bytes <= HARD_MAX_FILE_SIZE_BYTES
           /\ sl_result.total_limit_bytes # None
           /\ sl_result.total_limit_bytes <= HARD_MAX_TOTAL_SIZE_BYTES

\* ---- C9
\* the configured aggregate limit is zero, negative, or not a number
TotalIsNonPositiveOrNotANumber ==
    /\ "max_total_size_mb" \in DOMAIN sl_config
    /\ LET value == sl_config["max_total_size_mb"]
       IN \/ value.type \in {"NoneType", "str", "float:nan", "float:-inf"}
          \/ value.type \in {"bool", "int", "float"} /\ value.num <= 0

(***************************************************************************)
(* C9: when the configured max_total_size_mb is zero, negative or not a    *)
(* number, get_size_limits returns an aggregate limit equal to             *)
(* HARD_MAX_TOTAL_SIZE_BYTES, so the aggregate check stays in force.       *)
(***************************************************************************)
C9_NonPositiveTotalIsHardCeiling ==
    (sl_pc = "done" /\ TotalIsNonPositiveOrNotANumber)
        => /\ sl_result.status = "returned"
           /\ sl_result.total_limit_bytes = HARD_MAX_TOTAL_SIZE_BYTES

(***************************************************************************)
(* C10: validate_image_file rejects every file of more than 50 MiB with    *)
(* the 'File too large' error, also when called with a max_size_bytes      *)
(* above that ceiling.                                                     *)
(***************************************************************************)
C10_HardCeilingDespiteOverride ==
    (/\ vf_pc = "done"
     /\ vf_file.present
     /\ VfSizeValue = vf_file.st_size
     /\ vf_file.st_size > HARD_MAX_FILE_SIZE_BYTES)
        => vf_result = "ValueError:TooLarge"

(***************************************************************************)
(* C11: when the config path is a symbolic link, valid or dangling,        *)
(* write_config_safely raises SecurityError before changing anything: no   *)
(* step creates a temporary file, changes a permission, or writes the link *)
(* or the file the link leads to, and atomic_write_json is never started.  *)
(***************************************************************************)
C11_SymlinkedConfigUntouched ==
    [][wc_link # "none"
          => /\ UNCHANGED <<cdir, cdata, ddir, ddata, imode, wc_link>>
             /\ aw_pc' = "idle"
             /\ wc_warnings' = {}
             /\ wc_result' \in {"none", "SecurityError"}
             /\ wc_pc' = "done" => wc_result' = "SecurityError"]_vars

C11_Witness ==
    /\ wc_link = "valid"
    /\ imode[OldInode] # CONFIG_FILE_PERMISSIONS
    /\ wc_pc = "done"
    /\ wc_result = "SecurityError"
    /\ cdir.tmp = 0

\* ---- C12
\* the directory is already what create_directory_safely is asked for: every
\* component is a real directory, the target belongs to the caller and,
\* when permissions are to be hardened, nobody else may write to it
AlreadyCorrect(f) ==
    /\ \A i \in 1..path_len : f[i].kind = "dir"
    /\ f[path_len].uid = "me"
    /\ md_harden => BitAnd(f[path_len].mode, UNSAFE_WRITE_BITS) = 0

(***************************************************************************)
(* C12: create_directory_safely is idempotent on an already-correct        *)
(* directory.  A call that starts on an already-correct directory returns  *)
(* without error, creates nothing, warns about nothing and changes no      *)
(* permission; and the directory a call has returned for is already        *)
(* correct, so a second call with the same arguments is such a call.       *)
(***************************************************************************)
C12_IdempotentOnCorrectDirectory ==
    /\ md_call > 1 => AlreadyCorrect(md_fs_before)
    /\ (md_pc # "idle" /\ AlreadyCorrect(md_fs_before))
           => /\ fs = md_fs_before
              /\ md_created = {}
              /\ md_warnings = {}
              /\ md_result \in {"none", "returned"}

C12_Witness ==
    /\ md_call = 2
    /\ md_pc = "done"
    /\ md_result = "returned"
    /\ path_len = MaxDepth
    /\ md_harden
    /\ md_fs_before[path_len].mode = 493
    /\ md_mode = CONFIG_DIR_PERMISSIONS
    /\ fs = md_fs_before

Occurs(s, t) == \E i \in 1..(Len(t) - Len(s) + 1) : SubSeq(t, i, i + Len(s) - 1) = s

\* the segments of a path above its final one
DirectorySegments(path) ==
    {path[i] : i \in {j \in 1..Len(path) : path[j] # "/" /\ j < Len(path)}}

\* the final segments of the listed paths: these may remain
FinalSegments == {se_paths[i][Len(se_paths[i])] : i \in 1..Len(se_paths)}

\* the message is made of words and of paths that are all listed in paths
OnlyListedPaths ==
    LET listed == {se_paths[i] : i \in 1..Len(se_paths)}
    IN se_message \in
           {Join(parts) :
               parts \in UNION {[1..n -> MessageWords \cup listed] : n \in 1..MaxParts}}

(***************************************************************************)
(* C14: after sanitize_error_message(message, paths) on a message whose    *)
(* paths are all listed in paths, for every listed path the result         *)
(* contains neither the path itself nor any of its directory segments;     *)
(* only its final segment may remain.                                      *)
(***************************************************************************)
C14_NoListedPathSurvives ==
    (se_pc = "done" /\ OnlyListedPaths)
        => \A i \in 1..Len(se_paths) :
              /\ ~Occurs(se_paths[i], se_result)
              /\ \A k \in 1..Len(se_result) :
                    se_result[k] \notin DirectorySegments(se_paths[i]) \ FinalSegments

(***************************************************************************)
(* C15: every message written to the console that is derived from a path   *)
(* or from an OS error carries the path in sanitized form only.  For the   *)
(* warning of atomic_write_json: it contains neither the raw path of the   *)
(* config directory nor any directory segment of it.                       *)
(***************************************************************************)
C15_ConsoleCarriesNoRawPath ==
    /\ ~Occurs(ConfigDirStr, aw_warned)
    /\ \A k \in 1..Len(aw_warned) : aw_warned[k] \notin DirectorySegments(ConfigDirStr)

C17_EveryFieldPresent ==
    (rc_pc = "done" /\ rc_exit = None)
        => /\ DOMAIN rc_config = SchemaFields
           /\ rc_file_before.kind = "json"
                 => \A field \in SchemaFields \ DOMAIN rc_file_before.doc :
                        rc_config[field] = DEFAULT_CONFIG[field]

(***************************************************************************)
(* C18: read_config on a document that parses but holds a value its field  *)
(* does not accept (default_output_format = 12345) rejects the document:   *)
(* it returns the defaults, rewrites the config file with them and keeps   *)
(* the original content in a '.corrupted' backup.                          *)
(***************************************************************************)
HasInvalidValue(doc) ==
    \E field \in DOMAIN doc : Normalize(field, doc[field]).type = "exception"

C18_InvalidDocumentRejected ==
    (/\ rc_pc = "done"
     /\ rc_exit = None
     /\ rc_file_before.kind = "json"
     /\ HasInvalidValue(rc_file_before.doc))
        => /\ rc_config = DEFAULT_CONFIG
           /\ rc_file = JsonFile(DEFAULT_CONFIG)
           /\ \E index \in DOMAIN backups : backups[index] = rc_file_before

(***************************************************************************)
(* C19: a non-interactive read_config on a file that does not parse        *)
(* replaces it with the defaults and renames the original to the first     *)
(* unused name among '.corrupted', '.corrupted.1', ...; no backup that     *)
(* existed is overwritten and the corrupted content stays on disk.         *)
(***************************************************************************)
FirstUnusedIndex ==
    CHOOSE index \in 0..BACKUP_INDEX_END :
        /\ index \notin backups_before
        /\ \A lower \in 0..(index - 1) : lower \in backups_before

C19_CorruptedOriginalRenamedAside ==
    (rc_pc = "done" /\ ~interactive /\ rc_file_before.kind = "text")
        => /\ old_backups = backups_before
           /\ \/ rc_file = rc_file_before
              \/ \E index \in DOMAIN backups : backups[index] = rc_file_before
           /\ rc_exit = None
                 => /\ rc_file = JsonFile(DEFAULT_CONFIG)
                    /\ DOMAIN backups = {FirstUnusedIndex}
                    /\ backups[FirstUnusedIndex] = rc_file_before

(***************************************************************************)
(* C20: a single-field setter changes only its own field: every other      *)
(* field of the config file has the same value after the call as before,   *)
(* no other field appears or disappears, and a call that succeeds leaves   *)
(* its own field with the normalized value.                                *)
(***************************************************************************)
C20_SetterKeepsOtherFields ==
    (st_pc = "done" /\ rc_file_before.kind = "json")
        => /\ rc_file.kind = "json"
           /\ DOMAIN rc_file.doc \ {st_field} = DOMAIN rc_file_before.doc \ {st_field}
           /\ \A field \in DOMAIN rc_file_before.doc \ {st_field} :
                  rc_file.doc[field] = rc_file_before.doc[field]
           /\ st_error = "none"
                 => /\ st_field \in DOMAIN rc_file.doc
                    /\ rc_file.doc[st_field] = st_value

C20_Witness ==
    /\ st_pc = "done"
    /\ st_error = "none"
    /\ st_setter = "set_default_output_format"
    /\ st_arg = PyStr("HTML")
    /\ rc_file_before.kind = "json"
    /\ DOMAIN rc_file_before.doc = {"auto_stage_enabled", "default_convert_to"}
    /\ rc_file_before.doc["default_convert_to"] = PyStr("png")
    /\ rc_file.doc["default_convert_to"] = PyStr("png")
    /\ rc_file.doc["default_output_format"] = PyStr("html")

(***************************************************************************)
(* C21: after every write_config_safely that returns, the config file has  *)
(* the permission bits 0o600 exactly, whatever the bits of the file it     *)
(* replaced and whether or not the chmod of that file succeeded.           *)
(***************************************************************************)
C21_WrittenConfigIsPrivate ==
    (wc_pc = "done" /\ wc_result = "returned")
        => /\ cdir.target # 0
           /\ imode[cdir.target] = CONFIG_FILE_PERMISSIONS

C21_Witness ==
    /\ wc_pc = "done"
    /\ wc_result = "returned"
    /\ "CouldNotFix" \in wc_warnings
    /\ imode[OldInode] # CONFIG_FILE_PERMISSIONS
    /\ cdir.target = TmpInode
    /\ imode[TmpInode] = CONFIG_FILE_PERMISSIONS

(***************************************************************************)
(* C22: when the fsync of the containing directory fails after the rename, *)
(* atomic_write_json still returns, the target holds the new document and  *)
(* a durability warning has been echoed; the failure is never raised.      *)
(***************************************************************************)
C22_DirFsyncFailureIsNotFatal ==
    (aw_failed = "dirsync" /\ aw_crash = "no")
        => /\ aw_pc = "done"
           /\ aw_result = "returned"
           /\ cdir.target = TmpInode
           /\ DecodeJson(cdata[cdir.target]) = new_doc
           /\ aw_warned # <<>>
           /\ aw_warned[1] = "Warning:"

C22_Witness ==
    /\ aw_failed = "dirsync"
    /\ aw_crash = "no"
    /\ aw_result = "returned"
    /\ old_exists
    /\ new_doc # old_doc
    /\ DecodeJson(cdata[cdir.target]) = new_doc
    /\ ddir.target = OldInode
    /\ Len(aw_warned) > 2

(***************************************************************************)
(* C23: a file that fails validation during the scan of the source         *)
(* directory or during the batch copy is skipped with a warning and the    *)
(* remaining files are still processed; the same failure on the one file   *)
(* named by the user is fatal: fetch exits with status 1 and copies        *)
(* nothing.                                                                *)
(***************************************************************************)
\* the files copy_screenshots could read and found valid
CopyValid(file) ==
    file \notin cs_unreadable /\ source_entries[file].still_valid = "True"

ScanFinished == ~image_path_given /\ fe_pc \in {"batch", "done"} /\ screenshots # <<>>

C23_InvalidSkippedInBatchFatalWhenNamed ==
    /\ ~image_path_given => fe_exit_at \notin {"validation", "uncaught"}
    /\ ScanFinished
          => /\ gs_skipped = {i \in 1..Len(source_entries) :
                                 /\ ReachesValidation(source_entries[i])
                                 /\ source_entries[i].valid # "True"}
             /\ {file_stats[k] : k \in 1..Len(file_stats)}
                   = {i \in 1..Len(source_entries) :
                         /\ ReachesValidation(source_entries[i])
                         /\ source_entries[i].valid = "True"}
    /\ (ScanFinished /\ exit_code = 0 /\ ~limit_reached)
          => /\ cs_skipped = {screenshots[k] : k \in 1..Len(screenshots)}
                                \ ({file \in 1..Len(source_entries) : CopyValid(file)}
                                      \cup cs_unreadable)
             /\ copied_screenshots = SelectSeq(screenshots, CopyValid)
    /\ (/\ image_path_given
        /\ image_result # "True"
        /\ fe_pc = "done"
        /\ rp_result = "returned")
          => /\ exit_code = 1
             /\ fe_exit_at \in {"validation", "uncaught"}
             /\ "copied" \notin fe_log
             /\ destination_files = 0

(***************************************************************************)
(* C24: fetch without --allow-symlinks never copies a symlinked file found *)
(* in the source directory; the symlink is skipped, and a run for one file *)
(* copies the newest regular image file of the directory.                  *)
(***************************************************************************)
RegularImages ==
    {i \in 1..Len(source_entries) :
        /\ source_entries[i].kind = "file"
        /\ source_entries[i].ext
        /\ source_entries[i].valid = "True"}

C24_SymlinkedFileNeverCopied ==
    (~allow_symlinks /\ ~image_path_given)
        => /\ \A k \in 1..Len(copied_screenshots) :
                  source_entries[copied_screenshots[k]].kind # "symlink"
           /\ (count = 1 /\ Len(copied_screenshots) = 1)
                 => /\ copied_screenshots[1] \in RegularImages
                    /\ \A i \in RegularImages :
                          source_entries[i].st_mtime
                             <= source_entries[copied_screenshots[1]].st_mtime

(***************************************************************************)
(* C25: copy_screenshots with an aggregate limit L stops at the first      *)
(* validated file that takes the running total of sizes above L; it copies *)
(* neither that file nor any later one, and the sizes of the files it      *)
(* copied never add up to more than L. With L = None every valid file is   *)
(* copied.                                                                 *)
(***************************************************************************)
RECURSIVE SizeOf(_)
SizeOf(files) ==
    IF files = <<>> THEN 0
    ELSE source_entries[Head(files)].st_size + SizeOf(Tail(files))

\* the longest prefix of files whose sizes add up to no more than limit
RECURSIVE Within(_, _)
Within(files, limit) ==
    IF limit = None THEN files
    ELSE IF files = <<>> \/ SizeOf(files) <= limit THEN files
    ELSE Within(SubSeq(files, 1, Len(files) - 1), limit)

C25_AggregateLimitHonoured ==
    /\ max_total_size_bytes # None => SizeOf(copied_screenshots) <= max_total_size_bytes
    /\ max_total_size_bytes = None => ~limit_reached
    /\ (ScanFinished /\ exit_code = 0)
          => /\ copied_screenshots
                   = Within(SelectSeq(screenshots, CopyValid), max_total_size_bytes)
             /\ limit_reached
                   <=> copied_screenshots # SelectSeq(screenshots, CopyValid)

C25_Witness ==
    /\ ScanFinished
    /\ exit_code = 0
    /\ max_total_size_bytes = 3
    /\ limit_reached
    /\ Len(copied_screenshots) = 1
    /\ Len(SelectSeq(screenshots, CopyValid)) = 2
    /\ SizeOf(copied_screenshots) = 2
    /\ total_size = 4


(***************************************************************************)
(* C26: resolve_path_safely runs its checks in a fixed order: the symlink  *)
(* check of the target, then the walk over the target and its ancestors up *)
(* to the root, and only then the canonicalization with its existence      *)
(* check.  A missing target whose path holds a symlink is therefore        *)
(* reported as a symlink rejection, and FileNotFoundError is raised only   *)
(* for a path that passed every symlink check.                             *)
(***************************************************************************)
C26_SymlinkChecksBeforeExistence ==
    check_symlink =>
        /\ rp_pc = "walk"
              => \A i \in (rp_cur + 1)..path_len : ~IsSymlink(i)
        /\ rp_pc = "resolve" => \A i \in 1..path_len : ~IsSymlink(i)
        /\ rp_result \in {"FileNotFoundError", "NotADirectoryError", "returned"}
              => \A i \in 1..path_len : ~IsSymlink(i)
        /\ (rp_pc = "done" /\ \E i \in 1..path_len : IsSymlink(i))
              => rp_result \in ValueErrors

\* a target that does not exist, beneath a symlinked ancestor, is rejected
\* for the symlink
C26_Witness ==
    /\ check_symlink
    /\ rp_pc = "done"
    /\ Lstat(path_len).kind = "absent"
    /\ ResolveStrict(path_len) = "FileNotFoundError"
    /\ rp_result = "ValueError:SymlinkInParentChain"


(***************************************************************************)
(* C27: directory creation is race-free: whatever a concurrent actor does  *)
(* to the components of the path, and whenever it does it,                 *)
(* create_directory_safely never creates a directory at a location that    *)
(* is reached through a symlink.                                           *)
(***************************************************************************)
C27_NeverCreatesThroughSymlink ==
    [][\A i \in 1..path_len :
          (i \in md_created' /\ i \notin md_created)
              => \A j \in 1..(i - 1) : fs[j].kind # "link"]_vars

(***************************************************************************)
(* C28: for each component it processes, create_directory_safely           *)
(* re-validates every ancestor it accepted before; when a concurrent actor *)
(* has replaced such an ancestor by a symlink, or removed it, while a      *)
(* deeper component was in progress, the call raises SecurityError instead *)
(* of returning.                                                           *)
(***************************************************************************)
SecurityErrors ==
    {"SecurityError:PathContainsSymlink", "SecurityError:PathDisappeared",
     "SecurityError:PathIsSymlink", "SecurityError:NotADirectory",
     "SecurityError:ParentBecameSymlink", "SecurityError:ParentDisappeared",
     "SecurityError:DifferentUser", "SecurityError:DisappearedBeforeChmod",
     "SecurityError:BecameSymlinkBeforeChmod",
     "SecurityError:BecameSymlinkDuringChmod"}

C28_ReplacedAncestorRaisesSecurityError ==
    (md_pc = "done" /\ \E j \in replaced : fs[j].kind \in {"link", "absent"})
        => md_result \in SecurityErrors

(***************************************************************************)
(* C29: every rejection by create_directory_safely is a SecurityError:     *)
(* whatever the filesystem holds and whichever underlying step fails, the  *)
(* call returns the directory or raises SecurityError.                     *)
(***************************************************************************)
C29_EveryRejectionIsSecurityError ==
    md_pc = "done" => md_result \in {"returned"} \cup SecurityErrors

(***************************************************************************)
(* C30: the ownership check covers the final target, whether or not it     *)
(* existed before, and every component this call created; a mismatch       *)
(* raises SecurityError ("different user").  An intermediate component     *)
(* that existed before is accepted whoever owns it.                        *)
(***************************************************************************)
C30_OwnershipOfTargetAndCreated ==
    [][(md_pc = "checks" /\ md_pc' # "checks")
          => IF (md_idx \in md_created \/ md_idx = path_len)
                 /\ md_stat.uid # "me"
             THEN md_pc' = "done" /\ md_result' = "SecurityError:DifferentUser"
             ELSE md_result' # "SecurityError:DifferentUser"
                  /\ (md_idx < path_len => md_pc' = "pre" /\ md_idx' = md_idx + 1)]_vars

\* a component this call created belongs to someone else by the time it is
\* looked at, beneath an ancestor of another user that was accepted
C30_Witness ==
    /\ md_pc = "done"
    /\ md_result = "SecurityError:DifferentUser"
    /\ md_idx \in md_created
    /\ md_idx < path_len
    /\ md_stat.uid = "other"
    /\ \E j \in 1..(md_idx - 1) : j \notin md_created /\ fs[j].uid = "other"


(***************************************************************************)
(* C31: with harden_permissions=True, whenever create_directory_safely     *)
(* returns, the final target has neither the group-write nor the           *)
(* other-write bit, whatever mode was asked for and whatever permissions   *)
(* the target had before.                                                  *)
(***************************************************************************)
C31_HardenedTargetNotWritableByOthers ==
    (md_pc = "done" /\ md_result = "returned" /\ md_harden)
        => BitAnd(fs[path_len].mode, UNSAFE_WRITE_BITS) = 0

(***************************************************************************)
(* C32: create_directory_safely changes the permissions of the final       *)
(* target only, and only when harden_permissions=True and the target has a *)
(* group-write or other-write bit; with harden_permissions=False, for the  *)
(* intermediate components and for a target that is already safe, no       *)
(* permission bit of an existing directory changes.                        *)
(***************************************************************************)
C32_OnlyUnsafeTargetIsChanged ==
    [][\A i \in 1..MaxDepth :
          (fs[i].kind = "dir" /\ fs'[i] # fs[i])
              => /\ i = path_len
                 /\ md_harden
                 /\ BitAnd(fs[i].mode, UNSAFE_WRITE_BITS) # 0
                 /\ fs'[i] = [fs[i] EXCEPT !.mode = md_mode]]_vars

\* a world-writable target beneath a world-writable ancestor: the target
\* is given the mode asked for and the ancestor is left as it was
C32_Witness ==
    /\ md_pc = "done"
    /\ md_result = "returned"
    /\ md_harden
    /\ path_len > 1
    /\ md_fs_before[path_len] = DirEnt("me", 511)
    /\ md_fs_before[1].mode = 511
    /\ fs[path_len] = DirEnt("me", md_mode)
    /\ \A i \in 1..(path_len - 1) : fs[i] = md_fs_before[i]


(***************************************************************************)
(* C33: while hardening, the target is looked at again with lstat right    *)
(* before the chmod.  If it has become a symlink or has disappeared, or if *)
(* the chmod reports that it is undefined on a symlink                     *)
(* (NotImplementedError), create_directory_safely raises SecurityError: it *)
(* does not return, and the permissions of what the symlink points at are  *)
(* not changed.                                                            *)
(***************************************************************************)
C33_SymlinkAtChmodIsSecurityError ==
    [][/\ (/\ md_pc = "prechmod"
           /\ md_pc' # "prechmod"
           /\ Lstat(path_len).kind \in {"link", "absent"})
          => /\ md_pc' = "done"
             /\ md_result' = IF Lstat(path_len).kind = "link"
                                 THEN "SecurityError:BecameSymlinkBeforeChmod"
                              ELSE "SecurityError:DisappearedBeforeChmod"
             /\ fs' = fs
       /\ (/\ md_pc = "chmod"
           /\ md_pc' # "chmod"
           /\ Lstat(path_len).kind = "link")
          => /\ md_pc' = "done"
             /\ md_result' = "SecurityError:BecameSymlinkDuringChmod"
             /\ fs' = fs]_vars

\* the target was a directory at the lstat and is a symlink at the chmod
C33_Witness ==
    /\ md_pc = "done"
    /\ md_result = "SecurityError:BecameSymlinkDuringChmod"
    /\ swaps = 1
    /\ fs[path_len] = LinkEnt("other", "dir")
    /\ "unsafe permissions" \in md_warnings


(***************************************************************************)
(* C34: validate_image_file decides the size check first, on the file_size *)
(* the caller supplied when there is one: a file over the per-file limit   *)
(* is rejected with "File too large" before it is opened or decoded,       *)
(* whatever it holds, and no later check runs.                             *)
(***************************************************************************)
C34_SizeCheckComesFirst ==
    LET size == IF file_size # None THEN file_size ELSE vf_file.st_size
        limit == IF max_size_bytes = None THEN MAX_IMAGE_FILE_SIZE_BYTES
                 ELSE max_size_bytes
        readable == file_size # None \/ vf_file.present
    IN  /\ vf_pc \in {"open", "verify", "dims", "trailer"}
              => readable /\ size <= limit
        /\ vf_result = "True" => readable /\ size <= limit
        /\ (vf_pc = "done" /\ readable /\ size > limit)
              => vf_result = "ValueError:TooLarge" /\ img_format = "none"
        /\ vf_result = "ValueError:TooLarge"
              => readable /\ size > limit /\ img_format = "none"

\* the size the caller supplied is over the limit, the file on disk is a
\* small valid image: rejected for its size
C34_Witness ==
    /\ vf_pc = "done"
    /\ vf_result = "ValueError:TooLarge"
    /\ file_size = HARD_MAX_FILE_SIZE_BYTES + 1
    /\ max_size_bytes = None
    /\ vf_file.present
    /\ vf_file.st_size = 1024
    /\ vf_file.body = "ok"
    /\ SupportedFormat(PilFormat(vf_file.bytes))
    /\ HasTrailer(PilFormat(vf_file.bytes), vf_file.bytes)


(***************************************************************************)
(* C35: atomic_write_json orders its steps: the temporary file is created  *)
(* in the directory of the target, written to the end, flushed and         *)
(* fsynced, then given its permission bits, and only then renamed onto the *)
(* target; the directory is fsynced after the rename only.  The target is  *)
(* therefore never visible with content that is not on stable storage or   *)
(* with other permissions than the mode asked for.                         *)
(***************************************************************************)
C35_RenameAfterSyncAndChmod ==
    /\ (aw_crash = "no" /\ aw_pc \in {"fsync", "chmod", "replace"})
          => /\ cdir.tmp = TmpInode
             /\ cdir.target # TmpInode
             /\ cdata[TmpInode] = Serialize(new_doc)
    /\ (aw_crash = "no" /\ aw_pc \in {"chmod", "replace"})
          => ddata[TmpInode] = Serialize(new_doc)
    /\ (aw_crash = "no" /\ aw_pc = "dirsync") => cdir.target = TmpInode
    /\ ddir.target = TmpInode => aw_failed \notin {"dump", "fsync", "chmod"}
    /\ cdir.target = TmpInode
          => /\ cdata[TmpInode] = Serialize(new_doc)
             /\ ddata[TmpInode] = Serialize(new_doc)
             /\ imode[TmpInode] = CONFIG_FILE_PERMISSIONS

\* the rename has happened and the directory is not yet on stable storage:
\* the new target is complete and synced, the old one is still on disk
C35_Witness ==
    /\ aw_crash = "no"
    /\ aw_pc = "dirsync"
    /\ old_exists
    /\ new_doc # old_doc
    /\ cdir.target = TmpInode
    /\ ddir.target = OldInode
    /\ ddata[TmpInode] = Serialize(new_doc)


(***************************************************************************)
(* C36: update_config_field with a field name that is not a config field,  *)
(* or with a value the normalizer of the field rejects, raises a           *)
(* ClickException and writes nothing: the config file is as it was.        *)
(***************************************************************************)
C36_RejectedUpdateWritesNothing ==
    (/\ st_setter = "update_config_field"
     /\ st_pc = "done"
     /\ \/ st_field \notin SchemaFields
        \/ Normalize(st_field, st_arg).type = "exception")
        => /\ st_error = "ClickException"
           /\ rc_file = rc_file_before
           /\ backups = NoBackups


(***************************************************************************)
(* C37: two setters on different fields take no lock.  Each reads the      *)
(* whole document and writes the whole document back, so the update of one *)
(* can be overwritten by the other (the witness is such a lost update),    *)
(* while the file on disk is at every moment a complete document: the one  *)
(* it started with or the defaults, with the fields the finished setters   *)
(* wrote, and never a partial file.                                        *)
(***************************************************************************)
C37_StartDocument ==
    IF rc_file_before.kind = "json" THEN rc_file_before.doc ELSE DEFAULT_CONFIG

C37_LostUpdateButWholeDocument ==
    /\ \/ rc_file.kind = "json"
       \/ /\ rc_file = AbsentFile
          /\ rc_file_before = AbsentFile
          /\ \A p \in Procs : cc_pc[p] = "path" \/ cc_exit[p] = 1
    /\ rc_file.kind = "json" =>
          /\ DOMAIN C37_StartDocument \subseteq DOMAIN rc_file.doc
          /\ \A f \in DOMAIN rc_file.doc :
                \/ /\ f \in DOMAIN C37_StartDocument
                   /\ rc_file.doc[f] = C37_StartDocument[f]
                \/ \E p \in Procs : /\ cc_exit[p] = 0
                                     /\ cc_field[p] = f
                                     /\ cc_value[p] = rc_file.doc[f]
    /\ (\A p \in Procs : cc_exit[p] = 0) =>
          \E p \in Procs : /\ cc_field[p] \in DOMAIN rc_file.doc
                           /\ rc_file.doc[cc_field[p]] = cc_value[p]

\* both setters finished without an error and the field one of them set
\* holds what it held before
C37_Witness ==
    /\ \A p \in Procs : cc_pc[p] = "done" /\ cc_exit[p] = 0
    /\ rc_file_before.kind = "json"
    /\ rc_file.kind = "json"
    /\ \E p \in Procs :
          /\ cc_field[p] \in DOMAIN rc_file_before.doc
          /\ rc_file.doc[cc_field[p]] = rc_file_before.doc[cc_field[p]]
          /\ rc_file.doc[cc_field[p]] # cc_value[p]


(***************************************************************************)
(* C38: a component that the first lstat found absent is, when the call    *)
(* returns, a directory owned by the calling user: the components the call *)
(* created itself, and also those a concurrent actor created between the   *)
(* lstat and the mkdir (the FileExistsError that is tolerated).            *)
(***************************************************************************)
C38_AbsentComponentsEndUpOwned ==
    (md_pc = "done" /\ md_result = "returned") =>
       /\ \A j \in raced : fs[j].kind = "dir" /\ fs[j].uid = "me"
       /\ swaps = 0 =>
             \A j \in md_created : fs[j].kind = "dir" /\ fs[j].uid = "me"


(***************************************************************************)
(* C39: every file copy_screenshots writes into the destination passed     *)
(* validate_image_file earlier in the same call, and the bytes written are *)
(* the bytes that were validated, even if another process replaces the     *)
(* source file, or puts a symlink in its place, between the validation and *)
(* the copy.                                                               *)
(***************************************************************************)
C39_CopiedBytesWereValidated ==
    \A k \in 1..Len(cr_copied) :
       /\ cr_validated[cr_copied[k].source] # "none"
       /\ cr_copied[k].bytes = cr_validated[cr_copied[k].source]


(***************************************************************************)
(* C40: write_config_safely changes the permissions and the content of no  *)
(* file other than the config file and its own temporary file, even if the *)
(* config path is replaced by a symlink after the symlink check and before *)
(* the permission fix or the rename.                                       *)
(***************************************************************************)
C40_OtherFilesAreLeftAlone ==
    ws_pc # "idle" =>
       /\ ws_mode["other"] = ws_before.mode["other"]
       /\ ws_content["other"] = ws_before.content["other"]

====
